---- MODULE Spec2Model ----
(***************************************************************************)
(* Model of the transport notebooks of keileg/mastersproject:              *)
(*   - the time-stepping wrapper classes ImplicitTpfa and                  *)
(*     ImplicitScalarSource (old/transport/*.ipynb),                       *)
(*   - dirichlet_bc and assign_data of advection-diffusion-slim.ipynb,     *)
(*   - the cell sequences of the step-by-step notebooks and of the         *)
(*     fracture sample setup, run against the assembler of the library.    *)
(*                                                                         *)
(* Numbers are integers.  A time step is an integer number of time units,  *)
(* a length an integer number of length units; the code only multiplies,   *)
(* adds and compares these quantities.                                     *)
(***************************************************************************)
EXTENDS Integers, Sequences, FiniteSets, TLC

VARIABLES
    op,       \* the function of the notebooks called last ("none" initially)
    arg,      \* the arguments of that call
    ret,      \* what the call returned or raised
    nb,       \* the notebook being run
    pc,       \* index of the next operation of the notebook's cell sequence
    gbd,      \* the grid bucket: data dictionaries of its nodes and edges
    asm,      \* the assemblers by name: their active variables
    env,      \* the global names of the notebook and their values
    log       \* the operations run so far, in order

unitVars == <<op, arg, ret>>
runVars == <<nb, pc, gbd, asm, env, log>>
vars == <<op, arg, ret, nb, pc, gbd, asm, env, log>>

(***************************************************************************)
(* Bounds of the model.                                                    *)
(***************************************************************************)
MaxDt == 3          \* time steps are drawn from 1..MaxDt
MaxCoord == 4       \* the domain is [0, MaxCoord] along every axis
MaxSteps == 2       \* time steps of the transport loop

(***************************************************************************)
(* Python dictionaries are functions; a missing key is a KeyError.         *)
(***************************************************************************)
HasKey(d, k) == k \in DOMAIN d

\* dict.get(k, default)
Get(d, k, default) == IF k \in DOMAIN d THEN d[k] ELSE default

\* d.update(e): the entries of e win
Update(d, e) ==
    [k \in (DOMAIN d) \cup (DOMAIN e) |-> IF k \in DOMAIN e THEN e[k] ELSE d[k]]

EmptyDict == [k \in {} |-> 0]

Returned(v) == [exc |-> "none", val |-> v]
Raised(e) == [exc |-> e, val |-> <<>>]

(***************************************************************************)
(* Sparse matrices: nr rows, nc columns, entries a[i][j].  Vectors are     *)
(* sequences.  A product of mismatching shapes is a ValueError in scipy;   *)
(* the operators below are applied only where the shapes match.            *)
(***************************************************************************)
Mat(nr, nc, f(_, _)) ==
    [nr |-> nr, nc |-> nc, a |-> [i \in 1..nr |-> [j \in 1..nc |-> f(i, j)]]]

RECURSIVE SumTo(_, _)
SumTo(f(_), n) == IF n = 0 THEN 0 ELSE f(n) + SumTo(f, n - 1)

MatMul(A, B) ==
    LET e(i, j) == LET t(k) == A.a[i][k] * B.a[k][j] IN SumTo(t, A.nc)
    IN Mat(A.nr, B.nc, e)

Scale(A, s) == LET e(i, j) == A.a[i][j] * s IN Mat(A.nr, A.nc, e)
MatAdd(A, B) == LET e(i, j) == A.a[i][j] + B.a[i][j] IN Mat(A.nr, A.nc, e)
MatSub(A, B) == LET e(i, j) == A.a[i][j] - B.a[i][j] IN Mat(A.nr, A.nc, e)
Transpose(A) == LET e(i, j) == A.a[j][i] IN Mat(A.nc, A.nr, e)
Zeros(nr, nc) == LET e(i, j) == 0 IN Mat(nr, nc, e)
Eye(n) == LET e(i, j) == IF i = j THEN 1 ELSE 0 IN Mat(n, n, e)

MatVec(A, v) ==
    [i \in 1..A.nr |-> LET t(k) == A.a[i][k] * v[k] IN SumTo(t, A.nc)]
ScaleVec(v, s) == [i \in 1..Len(v) |-> v[i] * s]

(***************************************************************************)
(* Keywords and discretization objects.  A discretization object is        *)
(* [cls, keyword]: its class and the keyword it reads parameters and       *)
(* discretization matrices under.                                          *)
(***************************************************************************)
flow_keyword == "flow"
transport_keyword == "transport"
Keywords == {flow_keyword, transport_keyword}

Notebooks == {"slim", "2d", "3d"}

\* super().assemble_matrix_rhs(g, data): the pair (A, b) that the parent
\* pp.Tpfa assembles from what is stored under the object's keyword.
Tpfa_assemble_matrix_rhs(self, g, data) == data.Tpfa[self.keyword]

\* The right-hand side left unscaled
ImplicitTpfa_assemble_matrix_rhs_NoRhs(self, g, data) ==
    LET ab == Tpfa_assemble_matrix_rhs(self, g, data)
    IN  IF ~HasKey(data.PARAMETERS[self.keyword], "time_step")
        THEN Raised("KeyError")
        ELSE LET dt == data.PARAMETERS[self.keyword]["time_step"]
             IN  Returned(<<Scale(ab[1], dt), ab[2]>>)

\* ImplicitTpfa.assemble_matrix_rhs, advection-diffusion-slim.ipynb
ImplicitTpfa_assemble_matrix_rhs_slim(self, g, data) ==
    LET ab == Tpfa_assemble_matrix_rhs(self, g, data)
    IN  IF ~HasKey(data.PARAMETERS[self.keyword], "time_step")
        THEN Raised("KeyError")
        ELSE LET dt == data.PARAMETERS[self.keyword]["time_step"]
                 a == Scale(ab[1], dt)
                 b == ScaleVec(ab[2], dt)
             IN  Returned(<<a, b>>)

\* ImplicitTpfa.assemble_matrix_rhs, step-by-step-simplest-transport-with-fracture.ipynb
ImplicitTpfa_assemble_matrix_rhs_2d(self, g, data) ==
    LET ab == Tpfa_assemble_matrix_rhs(self, g, data)
    IN  IF ~HasKey(data.PARAMETERS[self.keyword], "time_step")
        THEN Raised("KeyError")
        ELSE LET dt == data.PARAMETERS[self.keyword]["time_step"]
                 a == Scale(ab[1], dt)
                 b == ScaleVec(ab[2], dt)
             IN  Returned(<<a, b>>)

\* ImplicitTpfa.assemble_matrix_rhs, step-by-step-simplest-transport-with-fracture-3D.ipynb
ImplicitTpfa_assemble_matrix_rhs_3d(self, g, data) ==
    LET ab == Tpfa_assemble_matrix_rhs(self, g, data)
    IN  IF ~HasKey(data.PARAMETERS[self.keyword], "time_step")
        THEN Raised("KeyError")
        ELSE LET dt == data.PARAMETERS[self.keyword]["time_step"]
                 a == Scale(ab[1], dt)
                 b == ScaleVec(ab[2], dt)
             IN  Returned(<<a, b>>)

ImplicitTpfa_assemble_matrix_rhs(n, self, g, data) ==
    CASE n = "slim" -> ImplicitTpfa_assemble_matrix_rhs_slim(self, g, data)
      [] n = "2d" -> ImplicitTpfa_assemble_matrix_rhs_2d(self, g, data)
      [] n = "3d" -> ImplicitTpfa_assemble_matrix_rhs_3d(self, g, data)

(***************************************************************************)
(* ImplicitScalarSource.assemble_rhs.  The statements run in the order of  *)
(* the source: the look-ups of 'time_step', of the matrix dictionary and   *)
(* of 'source', the assertion, the look-up of 'bound_source', the product. *)
(***************************************************************************)
\* self.ndof(g) of pp.ScalarSource: one degree of freedom per cell
ScalarSource_ndof(self, g) == g.num_cells

ImplicitScalarSource_assemble_rhs_NoDt(self, g, data) ==
    IF ~HasKey(data.PARAMETERS[self.keyword], "time_step") THEN Raised("KeyError")
    ELSE IF ~HasKey(data.DISCRETIZATION_MATRICES, self.keyword) THEN Raised("KeyError")
    ELSE IF ~HasKey(data.PARAMETERS[self.keyword], "source") THEN Raised("KeyError")
    ELSE
      LET dt == data.PARAMETERS[self.keyword]["time_step"]
          matrix_dictionary == data.DISCRETIZATION_MATRICES[self.keyword]
          sources == data.PARAMETERS[self.keyword]["source"]
      IN  IF Len(sources) # ScalarSource_ndof(self, g) THEN Raised("AssertionError")
          ELSE IF ~HasKey(matrix_dictionary, "bound_source") THEN Raised("KeyError")
          ELSE IF matrix_dictionary["bound_source"].nc # Len(sources)
               THEN Raised("ValueError")
          ELSE Returned(MatVec(matrix_dictionary["bound_source"], sources))

ImplicitScalarSource_assemble_rhs(self, g, data) ==
    IF ~HasKey(data.PARAMETERS[self.keyword], "time_step") THEN Raised("KeyError")
    ELSE IF ~HasKey(data.DISCRETIZATION_MATRICES, self.keyword) THEN Raised("KeyError")
    ELSE IF ~HasKey(data.PARAMETERS[self.keyword], "source") THEN Raised("KeyError")
    ELSE
      LET dt == data.PARAMETERS[self.keyword]["time_step"]
          matrix_dictionary == data.DISCRETIZATION_MATRICES[self.keyword]
          sources == data.PARAMETERS[self.keyword]["source"]
      IN  IF Len(sources) # ScalarSource_ndof(self, g) THEN Raised("AssertionError")
          ELSE IF ~HasKey(matrix_dictionary, "bound_source") THEN Raised("KeyError")
          ELSE IF matrix_dictionary["bound_source"].nc # Len(sources)
               THEN Raised("ValueError")
          ELSE Returned(ScaleVec(MatVec(matrix_dictionary["bound_source"], sources), dt))

(***************************************************************************)
(* ImplicitTpfa.assemble_int_bound_flux and assemble_int_bound_source.     *)
(* cc is the 3x3 block matrix of the coupling, indexed 0..2 as in Python;  *)
(* block [self_ind][2] couples the node to the edge variable.  Both        *)
(* methods return None and change cc in place: the operators return the    *)
(* new cc.                                                                 *)
(***************************************************************************)
\* pp.fvutils.map_hf_2_f(nd=1, g=g): sums the sub-faces of each face
map_hf_2_f(g) ==
    LET e(i, j) == IF ((j - 1) \div g.sub_per_face) + 1 = i THEN 1 ELSE 0
    IN  Mat(g.num_faces, g.num_faces * g.sub_per_face, e)

SetBlock(cc, i, j, M) == [cc EXCEPT ![i][j] = M]

SameShape(A, B) == A.nr = B.nr /\ A.nc = B.nc

ImplicitTpfa_assemble_int_bound_flux_NoDt(self, g, data, data_edge, grid_swap, cc, self_ind) ==
    IF ~HasKey(data.PARAMETERS[self.keyword], "time_step") THEN Raised("KeyError")
    ELSE IF ~HasKey(data.DISCRETIZATION_MATRICES[self.keyword], "bound_flux")
    THEN Raised("KeyError")
    ELSE
      LET div == Transpose(g.cell_faces)
          bound_flux0 == data.DISCRETIZATION_MATRICES[self.keyword]["bound_flux"]
          mg == data_edge["mortar_grid"]
          proj == IF grid_swap THEN mg.mortar_to_slave_int ELSE mg.mortar_to_master_int
          remap == g.dim > 0 /\ bound_flux0.nr # g.num_faces
          hf2f == map_hf_2_f(g)
      IN  IF remap /\ hf2f.nc # bound_flux0.nr THEN Raised("ValueError")
          ELSE
            LET bound_flux == IF remap THEN MatMul(hf2f, bound_flux0) ELSE bound_flux0
            IN  IF g.dim > 0 /\ bound_flux.nc # proj.nr THEN Raised("ValueError")
                ELSE IF div.nc # bound_flux.nr \/ bound_flux.nc # proj.nr
                THEN Raised("ValueError")
                ELSE
                  LET inc == MatMul(MatMul(div, bound_flux), proj)
                  IN  IF ~SameShape(cc[self_ind][2], inc) THEN Raised("ValueError")
                      ELSE Returned(SetBlock(cc, self_ind, 2, MatAdd(cc[self_ind][2], inc)))

ImplicitTpfa_assemble_int_bound_flux(self, g, data, data_edge, grid_swap, cc, self_ind) ==
    IF ~HasKey(data.PARAMETERS[self.keyword], "time_step") THEN Raised("KeyError")
    ELSE IF ~HasKey(data.DISCRETIZATION_MATRICES[self.keyword], "bound_flux")
    THEN Raised("KeyError")
    ELSE
      LET dt == data.PARAMETERS[self.keyword]["time_step"]
          div == Transpose(g.cell_faces)
          bound_flux0 == data.DISCRETIZATION_MATRICES[self.keyword]["bound_flux"]
          mg == data_edge["mortar_grid"]
          proj == IF grid_swap THEN mg.mortar_to_slave_int ELSE mg.mortar_to_master_int
          remap == g.dim > 0 /\ bound_flux0.nr # g.num_faces
          hf2f == map_hf_2_f(g)
      IN  IF remap /\ hf2f.nc # bound_flux0.nr THEN Raised("ValueError")
          ELSE
            LET bound_flux == IF remap THEN MatMul(hf2f, bound_flux0) ELSE bound_flux0
            IN  IF g.dim > 0 /\ bound_flux.nc # proj.nr THEN Raised("ValueError")
                ELSE IF div.nc # bound_flux.nr \/ bound_flux.nc # proj.nr
                THEN Raised("ValueError")
                ELSE
                  LET inc == MatMul(MatMul(Scale(div, dt), bound_flux), proj)
                  IN  IF ~SameShape(cc[self_ind][2], inc) THEN Raised("ValueError")
                      ELSE Returned(SetBlock(cc, self_ind, 2, MatAdd(cc[self_ind][2], inc)))

ImplicitTpfa_assemble_int_bound_source(self, g, data, data_edge, grid_swap, cc, self_ind) ==
    LET mg == data_edge["mortar_grid"]
        proj == IF grid_swap THEN mg.mortar_to_master_int ELSE mg.mortar_to_slave_int
    IN  IF ~HasKey(data.PARAMETERS[self.keyword], "time_step") THEN Raised("KeyError")
        ELSE
          LET dt == data.PARAMETERS[self.keyword]["time_step"]
              dec == Scale(proj, dt)
          IN  IF ~SameShape(cc[self_ind][2], dec) THEN Raised("ValueError")
              ELSE Returned(SetBlock(cc, self_ind, 2, MatSub(cc[self_ind][2], dec)))

(***************************************************************************)
(* dirichlet_bc of advection-diffusion-slim.ipynb.                         *)
(* A grid g has faces 1..g.num_faces, g.face_centers[axis][f] with axis    *)
(* 0, 1, 2 and the flags g.tags["domain_boundary_faces"][f].  Lengths are  *)
(* in units of half the tolerance, so that tol is 2.                       *)
(***************************************************************************)
tol == 2

\* flags.nonzero()[0]: the indices of the true flags, ascending
RECURSIVE NonzeroUpTo(_, _)
NonzeroUpTo(flags, n) ==
    IF n = 0 THEN <<>>
    ELSE IF flags[n] THEN Append(NonzeroUpTo(flags, n - 1), n)
         ELSE NonzeroUpTo(flags, n - 1)
Nonzero(flags) == NonzeroUpTo(flags, Len(flags))

FlowDirs == {"E", "W", "N", "S", "U", "D"}

\* pp.BoundaryCondition(g, faces, labels): the faces given carry their
\* label; pp.BoundaryCondition(g) is the default condition, no face given.
BoundaryCondition(g, faces, labels) == [faces |-> faces, labels |-> labels]
DefaultBoundaryCondition(g) == [faces |-> <<>>, labels |-> <<>>]

dirichlet_bc_NoSwap(g, flowdir, domain) ==
    LET b_faces == Nonzero(g.tags["domain_boundary_faces"])
        axis == CASE flowdir \in {"W", "E"} -> 0
                  [] flowdir \in {"N", "S"} -> 1
                  [] flowdir \in {"U", "D"} -> 2
        lohi == CASE flowdir \in {"W", "E"} -> <<"xmin", "xmax">>
                  [] flowdir \in {"N", "S"} -> <<"ymin", "ymax">>
                  [] flowdir \in {"U", "D"} -> <<"zmin", "zmax">>
    IN  IF flowdir \notin FlowDirs THEN Raised("NameError")
        ELSE IF ~HasKey(domain, lohi[1]) THEN Raised("TypeError")
        ELSE
          LET mi == domain[lohi[1]]
              ma == Get(domain, lohi[2], 0)
              c(k) == g.face_centers[axis][b_faces[k]]
              b_inflow == [k \in 1..Len(b_faces) |-> c(k) < mi + tol]
              b_outflow == [k \in 1..Len(b_faces) |-> c(k) > ma - tol]
              labels == [k \in 1..Len(b_faces) |->
                            IF b_inflow[k] \/ b_outflow[k] THEN "dir" ELSE "neu"]
              bc == BoundaryCondition(g, b_faces, labels)
              bc_val == [f \in 1..g.num_faces |->
                            IF \E k \in 1..Len(b_faces) : b_faces[k] = f /\ b_inflow[k]
                            THEN 1 ELSE 0]
          IN  IF ~HasKey(domain, lohi[2]) THEN Raised("TypeError")
              ELSE Returned(<<bc, bc_val>>)

dirichlet_bc(g, flowdir, domain) ==
    LET b_faces == Nonzero(g.tags["domain_boundary_faces"])
        axis == CASE flowdir \in {"W", "E"} -> 0
                  [] flowdir \in {"N", "S"} -> 1
                  [] flowdir \in {"U", "D"} -> 2
        lohi == CASE flowdir \in {"W", "E"} -> <<"xmin", "xmax">>
                  [] flowdir \in {"N", "S"} -> <<"ymin", "ymax">>
                  [] flowdir \in {"U", "D"} -> <<"zmin", "zmax">>
    IN  IF flowdir \notin FlowDirs THEN Raised("NameError")
        ELSE IF ~HasKey(domain, lohi[1]) THEN Raised("TypeError")
        ELSE
          LET mi == domain[lohi[1]]
              ma == Get(domain, lohi[2], 0)
              c(k) == g.face_centers[axis][b_faces[k]]
              lo == [k \in 1..Len(b_faces) |-> c(k) < mi + tol]
              hi == [k \in 1..Len(b_faces) |-> c(k) > ma - tol]
              swap == flowdir \in {"S", "W", "D"}
              b_inflow == IF swap THEN hi ELSE lo
              b_outflow == IF swap THEN lo ELSE hi
              labels == [k \in 1..Len(b_faces) |->
                            IF b_inflow[k] \/ b_outflow[k] THEN "dir" ELSE "neu"]
              bc == BoundaryCondition(g, b_faces, labels)
              bc_val == [f \in 1..g.num_faces |->
                            IF \E k \in 1..Len(b_faces) : b_faces[k] = f /\ b_inflow[k]
                            THEN 1 ELSE 0]
          IN  IF ~HasKey(domain, lohi[2]) THEN Raised("TypeError")
              ELSE Returned(<<bc, bc_val>>)

(***************************************************************************)
(* assign_data of advection-diffusion-slim.ipynb.                          *)
(* A grid bucket gb is [nodes, edges]: the sequence of its grids and the   *)
(* sequence of the mortar grids of its edges.  The function returns the    *)
(* data dictionaries it leaves on the nodes and on the edges.  Times are   *)
(* in units of 1/60, porosities in percent, apertures in units of 1e-4.    *)
(***************************************************************************)
DefaultTimeStep == 1       \* data.get('time_step', 1 / 60)
DefaultTMax == 20          \* data.get("t_max", 1 / 3)
DefaultFracPerm == 1000    \* data.get('frac_perm', 1e3)
DefaultMatrixPerm == 1     \* data.get('matrix_perm', 1)
DefaultPorosity == 20      \* data.get('porosity', 0.2)
DefaultAperture == 1       \* data.get('aperture', 1e-4)
NormalDiffusivity == 20    \* params = {'normal_diffusivity': 2e1}

RECURSIVE Power(_, _)
Power(x, n) == IF n = 0 THEN 1 ELSE x * Power(x, n - 1)

RECURSIVE MaxDimUpTo(_, _)
MaxDimUpTo(nodes, n) ==
    IF n = 0 THEN 0
    ELSE LET m == MaxDimUpTo(nodes, n - 1)
         IN  IF nodes[n].dim > m THEN nodes[n].dim ELSE m
\* gb.dim_max()
dim_max(gb) == MaxDimUpTo(gb.nodes, Len(gb.nodes))

Ones(n) == [i \in 1..n |-> 1]
SecondOrderTensor(kxx) == [kxx |-> kxx]

\* The parameters pp.initialize_default_data gives a keyword before the
\* specified ones are applied.  The key set for 'transport' is the one the
\* 2D notebook prints for its rock grid.
DefaultParameterKeys(parameter_type) ==
    IF parameter_type = "transport"
    THEN {"source", "mass_weight", "second_order_tensor", "bc", "bc_values",
          "darcy_flux", "time_step"}
    ELSE {"source", "mass_weight", "second_order_tensor", "bc", "bc_values",
          "time_step"}

\* The value of a parameter the library has set by default
DefaultValue == [default |-> TRUE]

\* pp.initialize_default_data(g, d, parameter_type, specified_parameters, keyword)
initialize_default_data(g, d, parameter_type, specified_parameters, keyword) ==
    LET defaults == [k \in DefaultParameterKeys(parameter_type) |-> DefaultValue]
        params == Update(defaults, specified_parameters)
    IN  [d EXCEPT !.PARAMETERS = Update(@, [k \in {keyword} |-> params]),
                  !.DISCRETIZATION_MATRICES = Update(@, [k \in {keyword} |-> EmptyDict])]

\* pp.initialize_data(g, data, keyword, specified_parameters)
initialize_data(g, d, keyword, specified_parameters) ==
    [d EXCEPT !.PARAMETERS = Update(@, [k \in {keyword} |-> specified_parameters]),
              !.DISCRETIZATION_MATRICES = Update(@, [k \in {keyword} |-> EmptyDict])]

NoData == [PARAMETERS |-> EmptyDict, DISCRETIZATION_MATRICES |-> EmptyDict,
           pp_STATE |-> EmptyDict]

\* The body of the loop `for g, d in gb` of assign_data for one grid
assign_data_node(gb, g, d, domain, keyword, data) ==
    LET frac_perm == Get(data, "frac_perm", DefaultFracPerm)
        matrix_perm == Get(data, "matrix_perm", DefaultMatrixPerm)
        flowdir == Get(data, "flowdir", "E")
        poro == Get(data, "porosity", DefaultPorosity)
        dt == Get(data, "time_step", DefaultTimeStep)
        t_max == Get(data, "t_max", DefaultTMax)
        aper == Get(data, "aperture", DefaultAperture)
        top == g.dim = dim_max(gb)
        porosity == IF top THEN ScaleVec(Ones(g.num_cells), poro)
                    ELSE ScaleVec(Ones(g.num_cells), 100 - poro)
        aperture == IF top THEN 1 ELSE Power(aper, dim_max(gb) - g.dim)
        timing == IF keyword = "transport"
                  THEN [time_step |-> dt, t_max |-> t_max,
                        mass_weight |-> ScaleVec(porosity, aperture)]
                  ELSE EmptyDict
        kxx == IF top THEN ScaleVec(Ones(g.num_cells), matrix_perm)
               ELSE ScaleVec(Ones(g.num_cells), frac_perm)
        b_faces == Nonzero(g.tags["domain_boundary_faces"])
        r == dirichlet_bc(g, flowdir, domain)
    IN  IF Len(b_faces) # 0 /\ r.exc # "none" THEN Raised(r.exc)
        ELSE
          LET bc == IF Len(b_faces) # 0 THEN r.val[1] ELSE DefaultBoundaryCondition(g)
              bc_val == IF Len(b_faces) # 0 THEN r.val[2]
                        ELSE [f \in 1..g.num_faces |-> 0]
              specified_parameters ==
                  Update(timing, [second_order_tensor |-> SecondOrderTensor(kxx),
                                  bc |-> bc, bc_values |-> bc_val])
              d1 == initialize_default_data(g, d, keyword, specified_parameters, keyword)
          IN  Returned([d1 EXCEPT !.pp_STATE =
                           [dimension |-> ScaleVec(Ones(g.num_cells), g.dim)]])

assign_data_edge(mg, d, keyword) ==
    initialize_data(mg, d, keyword, [normal_diffusivity |-> NormalDiffusivity])

assign_data(gb, domain, keyword, data) ==
    LET nd == [i \in 1..Len(gb.nodes) |->
                  assign_data_node(gb, gb.nodes[i], NoData, domain, keyword, data)]
    IN  IF \E i \in 1..Len(gb.nodes) : nd[i].exc # "none"
        THEN Raised(nd[CHOOSE i \in 1..Len(gb.nodes) : nd[i].exc # "none"
                                  /\ \A j \in 1..(i - 1) : nd[j].exc = "none"].exc)
        ELSE Returned([nodes |-> [i \in 1..Len(gb.nodes) |-> nd[i].val],
                       edges |-> [i \in 1..Len(gb.edges) |->
                                     assign_data_edge(gb.edges[i], NoData, keyword)]])

(***************************************************************************)
(* Inputs of the calls.                                                    *)
(***************************************************************************)
NumFaces == 2      \* faces of the grids handed to dirichlet_bc

\* time_step is stored when ts > 0 and missing when ts = 0
WithTimeStep(d, ts) == IF ts = 0 THEN d ELSE Update(d, [time_step |-> ts])
TimeSteps == 0..MaxDt

\* Pairs (A, b) a parent Tpfa may assemble
Systems ==
    {<<Eye(1), <<1>>>>,
     <<LET e(i, j) == IF i = j THEN 2 ELSE -1 IN Mat(2, 2, e), <<1, -2>>>>}

SourceVecs == {<<1>>, <<2>>, <<1, 2>>, <<0, 3>>, <<1, 1, 1>>}

\* A dense sample matrix with distinct rows and columns
Sample(nr, nc) == LET e(i, j) == ((i + 2 * j) % 3) - 1 IN Mat(nr, nc, e)

\* Grids: a 1D grid of two cells, a 2D grid of one triangle, a point
Grid1 == [dim |-> 1, num_cells |-> 2, num_faces |-> 3, sub_per_face |-> 1,
          cell_faces |-> LET e(i, j) == IF i = j THEN -1 ELSE IF i = j + 1 THEN 1 ELSE 0
                         IN Mat(3, 2, e)]
Grid2 == [dim |-> 2, num_cells |-> 1, num_faces |-> 3, sub_per_face |-> 2,
          cell_faces |-> LET e(i, j) == IF i = 3 THEN -1 ELSE 1 IN Mat(3, 1, e)]
Grid0 == [dim |-> 0, num_cells |-> 1, num_faces |-> 0, sub_per_face |-> 1,
          cell_faces |-> Zeros(0, 1)]
Grids == {Grid0, Grid1, Grid2}

\* A mortar grid of nm cells with its two projections
MortarGrid(nm, rows_master, rows_slave) ==
    LET e(i, j) == IF ((i - 1) % nm) + 1 = j THEN 1 ELSE 0
    IN  [num_cells |-> nm,
         mortar_to_master_int |-> Mat(rows_master, nm, e),
         mortar_to_slave_int |-> Mat(rows_slave, nm, e)]

\* The coupling matrix handed to a node discretization: block [i][2] of a
\* node has one row per cell of g and one column per mortar cell
CouplingBlocks(g, nm, filled) ==
    [i \in 0..2 |-> [j \in 0..2 |->
        IF j = 2 /\ i < 2
        THEN IF filled THEN Sample(g.num_cells, nm) ELSE Zeros(g.num_cells, nm)
        ELSE Zeros(1, 1)]]

NodeData(tsFlow, tsTransport, mats) ==
    [PARAMETERS |-> [k \in Keywords |->
                        WithTimeStep(EmptyDict, IF k = flow_keyword THEN tsFlow
                                                ELSE tsTransport)],
     DISCRETIZATION_MATRICES |-> [k \in Keywords |-> mats]]

\* A sub-face matrix: one row and one column per half face
Upper(n) == LET e(i, j) == IF i <= j THEN 1 ELSE 0 IN Mat(n, n, e)

BoundFluxChoices(g) ==
    {EmptyDict,
     [bound_flux |-> Eye(g.num_faces)],
     [bound_flux |-> Sample(g.num_faces, g.num_faces)],
     [bound_flux |-> Upper(g.num_faces * g.sub_per_face)]}

(***************************************************************************)
(* The calls.  Each action is one call of a function of the notebooks on   *)
(* inputs drawn from the sets above; ret records what it returned or       *)
(* raised.  A behaviour makes one call: the functions share no state.      *)
(***************************************************************************)
CallAssembleMatrixRhs ==
    /\ op = "none"
    /\ \E n \in Notebooks, kw \in Keywords, tsF \in TimeSteps, tsT \in TimeSteps,
       sysF \in Systems, sysT \in Systems :
        LET self == [cls |-> "ImplicitTpfa", keyword |-> kw]
            g == Grid1
            data == [PARAMETERS |-> NodeData(tsF, tsT, EmptyDict).PARAMETERS,
                     Tpfa |-> [k \in Keywords |-> IF k = flow_keyword THEN sysF ELSE sysT]]
        IN  /\ op' = "ImplicitTpfa.assemble_matrix_rhs"
            /\ arg' = [nb |-> n, self |-> self, g |-> g, data |-> data]
            /\ ret' = ImplicitTpfa_assemble_matrix_rhs(n, self, g, data)
            /\ UNCHANGED runVars

CallAssembleRhs ==
    /\ op = "none"
    /\ \E kw \in Keywords, tsF \in TimeSteps, tsT \in TimeSteps, nc \in 1..2,
       src \in SourceVecs, hasMats \in BOOLEAN, bs \in 0..3 :
        LET self == [cls |-> "ImplicitScalarSource", keyword |-> kw]
            g == [num_cells |-> nc]
            mats == CASE bs = 0 -> EmptyDict
                      [] bs = 1 -> [bound_source |-> Eye(nc)]
                      [] bs = 2 -> [bound_source |-> Sample(nc, nc)]
                      [] bs = 3 -> [bound_source |-> Eye(nc + 1)]
            base == NodeData(tsF, tsT, mats)
            data == [PARAMETERS |-> [k \in Keywords |->
                                        Update(base.PARAMETERS[k], [source |-> src])],
                     DISCRETIZATION_MATRICES |->
                         IF hasMats THEN base.DISCRETIZATION_MATRICES ELSE EmptyDict]
        IN  /\ op' = "ImplicitScalarSource.assemble_rhs"
            /\ arg' = [self |-> self, g |-> g, data |-> data]
            /\ ret' = ImplicitScalarSource_assemble_rhs(self, g, data)
            /\ UNCHANGED runVars

CallIntBoundFlux ==
    /\ op = "none"
    /\ \E kw \in Keywords, tsF \in TimeSteps, tsT \in TimeSteps, g \in Grids,
       nm \in 1..2, wide \in BOOLEAN, grid_swap \in BOOLEAN, self_ind \in 0..1,
       filled \in BOOLEAN :
      \E mats \in BoundFluxChoices(g) :
        LET self == [cls |-> "ImplicitTpfa", keyword |-> kw]
            data == NodeData(tsF, tsT, mats)
            rows == IF wide THEN g.num_faces * g.sub_per_face ELSE g.num_faces
            data_edge == [mortar_grid |-> MortarGrid(nm, rows, g.num_cells)]
            cc == CouplingBlocks(g, nm, filled)
        IN  /\ op' = "ImplicitTpfa.assemble_int_bound_flux"
            /\ arg' = [self |-> self, g |-> g, data |-> data, data_edge |-> data_edge,
                       grid_swap |-> grid_swap, cc |-> cc, self_ind |-> self_ind]
            /\ ret' = ImplicitTpfa_assemble_int_bound_flux(
                          self, g, data, data_edge, grid_swap, cc, self_ind)
            /\ UNCHANGED runVars

CallIntBoundSource ==
    /\ op = "none"
    /\ \E kw \in Keywords, tsF \in TimeSteps, tsT \in TimeSteps, g \in Grids,
       nm \in 1..2, grid_swap \in BOOLEAN, self_ind \in 0..1, filled \in BOOLEAN :
        LET self == [cls |-> "ImplicitTpfa", keyword |-> kw]
            data == NodeData(tsF, tsT, EmptyDict)
            data_edge == [mortar_grid |-> MortarGrid(nm, g.num_faces, g.num_cells)]
            cc == CouplingBlocks(g, nm, filled)
        IN  /\ op' = "ImplicitTpfa.assemble_int_bound_source"
            /\ arg' = [self |-> self, g |-> g, data |-> data, data_edge |-> data_edge,
                       grid_swap |-> grid_swap, cc |-> cc, self_ind |-> self_ind]
            /\ ret' = ImplicitTpfa_assemble_int_bound_source(
                          self, g, data, data_edge, grid_swap, cc, self_ind)
            /\ UNCHANGED runVars

\* The domain: [axis, axis + MaxCoord] along axis 0, 1, 2
Lo(axis) == axis
Hi(axis) == axis + MaxCoord
Domain2 == [xmin |-> Lo(0), xmax |-> Hi(0), ymin |-> Lo(1), ymax |-> Hi(1)]
Domain3 == Update(Domain2, [zmin |-> Lo(2), zmax |-> Hi(2)])

FlowAxis(flowdir) ==
    CASE flowdir \in {"N", "S"} -> 1
      [] flowdir \in {"U", "D"} -> 2
      [] OTHER -> 0

\* A grid inside the domain: face f lies at Lo + along[f] on the axis `axis`
\* and on the low or the high side of the domain on the two other axes
BoundaryGrid(axis, flags, along, side) ==
    [dim |-> 2, num_cells |-> 1, num_faces |-> Len(flags),
     tags |-> [domain_boundary_faces |-> flags],
     face_centers |-> [a \in 0..2 |-> [f \in 1..Len(flags) |->
                          IF a = axis THEN Lo(a) + along[f]
                          ELSE IF side[f] THEN Hi(a) ELSE Lo(a)]]]

CallDirichletBc ==
    /\ op = "none"
    /\ \E flowdir \in FlowDirs \cup {"X"}, domain \in {Domain2, Domain3},
       flags \in [1..NumFaces -> BOOLEAN], along \in [1..NumFaces -> 0..MaxCoord],
       side \in [1..NumFaces -> BOOLEAN] :
        LET g == BoundaryGrid(FlowAxis(flowdir), flags, along, side)
        IN  /\ op' = "dirichlet_bc"
            /\ arg' = [g |-> g, flowdir |-> flowdir, domain |-> domain]
            /\ ret' = dirichlet_bc(g, flowdir, domain)
            /\ UNCHANGED runVars

\* Grid buckets for assign_data: a rock grid with two boundary faces, alone
\* or with an immersed fracture and the mortar grid between them
Rock == [dim |-> 2, num_cells |-> 2, num_faces |-> 3,
         tags |-> [domain_boundary_faces |-> <<TRUE, TRUE, FALSE>>],
         face_centers |-> [a \in 0..2 |->
             CASE a = 0 -> <<Lo(0), Hi(0), Lo(0) + 2>>
               [] a = 1 -> <<Lo(1) + 2, Lo(1) + 2, Lo(1) + 2>>
               [] a = 2 -> <<0, 0, 0>>]]
Fracture == [dim |-> 1, num_cells |-> 1, num_faces |-> 2,
             tags |-> [domain_boundary_faces |-> <<FALSE, FALSE>>],
             face_centers |-> [a \in 0..2 |->
                 CASE a = 0 -> <<Lo(0) + 1, Lo(0) + 3>>
                   [] a = 1 -> <<Lo(1) + 2, Lo(1) + 2>>
                   [] a = 2 -> <<0, 0>>]]
Buckets ==
    {[nodes |-> <<Rock>>, edges |-> <<>>],
     [nodes |-> <<Rock, Fracture>>, edges |-> <<MortarGrid(1, 3, 1)>>]}

Optional(key, present, value) == IF present THEN [k \in {key} |-> value] ELSE EmptyDict

CallAssignData ==
    /\ op = "none"
    /\ \E gb \in Buckets, keyword \in Keywords, dt \in TimeSteps, ts \in {0, MaxDt},
       aw \in 0..2, fd \in {"", "W", "N", "U"}, tm \in {0, 5} :
        LET data == Update(Optional("dt", dt > 0, dt),
                    Update(Optional("time_step", ts > 0, ts),
                    Update(Optional("advection_weight", aw > 0, aw - 1),
                    Update(Optional("flowdir", fd # "", fd),
                           Optional("t_max", tm > 0, tm)))))
        IN  /\ op' = "assign_data"
            /\ arg' = [gb |-> gb, domain |-> Domain2, keyword |-> keyword, data |-> data]
            /\ ret' = assign_data(gb, Domain2, keyword, data)
            /\ UNCHANGED runVars

InitCalls ==
    /\ op = "none"
    /\ arg = <<>>
    /\ ret = Returned(<<>>)

InitRun ==
    /\ nb = "none"
    /\ pc = 0
    /\ gbd = [nodes |-> <<>>, edges |-> <<>>]
    /\ asm = EmptyDict
    /\ env = EmptyDict
    /\ log = <<>>

Init == InitCalls /\ InitRun

(***************************************************************************)
(* assign_data of the two step-by-step notebooks and the parameter loop of *)
(* the fracture sample setup.  Times are in units of the time step the     *)
(* notebook uses (1/60 in 2D, 1/120 in 3D).                                *)
(***************************************************************************)
\* The boundary condition of both step-by-step notebooks: Dirichlet on the
\* left and on the right of the domain, value 1 on the left
left_right_bc_InflowRight(g, domain) ==
    LET b_faces == Nonzero(g.tags["domain_boundary_faces"])
        c(k) == g.face_centers[0][b_faces[k]]
        left == [k \in 1..Len(b_faces) |-> c(k) < domain["xmin"] + tol]
        right == [k \in 1..Len(b_faces) |-> c(k) > domain["xmax"] - tol]
        labels == [k \in 1..Len(b_faces) |->
                      IF left[k] \/ right[k] THEN "dir" ELSE "neu"]
    IN  IF Len(b_faces) # 0
        THEN [bc |-> BoundaryCondition(g, b_faces, labels),
              bc_values |-> [f \in 1..g.num_faces |->
                  IF \E k \in 1..Len(b_faces) : b_faces[k] = f /\ right[k]
                  THEN 1 ELSE 0]]
        ELSE [bc |-> DefaultBoundaryCondition(g),
              bc_values |-> [f \in 1..g.num_faces |-> 0]]
left_right_bc(g, domain) ==
    LET b_faces == Nonzero(g.tags["domain_boundary_faces"])
        c(k) == g.face_centers[0][b_faces[k]]
        left == [k \in 1..Len(b_faces) |-> c(k) < domain["xmin"] + tol]
        right == [k \in 1..Len(b_faces) |-> c(k) > domain["xmax"] - tol]
        labels == [k \in 1..Len(b_faces) |->
                      IF left[k] \/ right[k] THEN "dir" ELSE "neu"]
    IN  IF Len(b_faces) # 0
        THEN [bc |-> BoundaryCondition(g, b_faces, labels),
              bc_values |-> [f \in 1..g.num_faces |->
                  IF \E k \in 1..Len(b_faces) : b_faces[k] = f /\ left[k]
                  THEN 1 ELSE 0]]
        ELSE [bc |-> DefaultBoundaryCondition(g),
              bc_values |-> [f \in 1..g.num_faces |-> 0]]

FracPerm2d == 1000000000   \* frac_perm = 1e9
FracPerm3d == 1000         \* frac_perm = 1e3
Porosity2d == 20           \* poro = 0.2, in percent
FlowTimeStep3d == 1        \* 'time_step': 1/120

stepbystep_edge(mg, kf, kt) ==
    LET data == [normal_diffusivity |-> NormalDiffusivity]
    IN  [PARAMETERS |-> [k \in {kf, kt} |-> data],
         DISCRETIZATION_MATRICES |-> [k \in {kf, kt} |-> EmptyDict],
         pp_STATE |-> EmptyDict,
         mortar_grid |-> mg]

\* assign_data(gb, domain, keyword_flow_storage, keyword_transport_storage,
\*             dt, t_max) of the 2D notebook
assign_data_2d(gb, domain, kf, kt, dt, t_max) ==
    LET node(g) ==
          LET top == g.dim = dim_max(gb)
              kxx == ScaleVec(Ones(g.num_cells), IF top THEN 1 ELSE FracPerm2d)
              b == left_right_bc(g, domain)
              params_flow == [second_order_tensor |-> SecondOrderTensor(kxx),
                              bc |-> b.bc, bc_values |-> b.bc_values]
              porosity == ScaleVec(Ones(g.num_cells),
                                   IF top THEN Porosity2d ELSE 100 - Porosity2d)
              aperture == IF top THEN 1 ELSE Power(DefaultAperture, dim_max(gb) - g.dim)
              params_transport == [bc |-> b.bc, bc_values |-> b.bc_values,
                                   advection_weight |-> 1, time_step |-> dt,
                                   t_max |-> t_max,
                                   mass_weight |-> ScaleVec(porosity, aperture)]
              d1 == initialize_default_data(g, NoData, "flow", params_flow, kf)
              d2 == initialize_default_data(g, d1, "transport", params_transport, kt)
          IN  [d2 EXCEPT !.pp_STATE = [dimension |-> ScaleVec(Ones(g.num_cells), g.dim)]]
    IN  [nodes |-> [i \in 1..Len(gb.nodes) |-> node(gb.nodes[i])],
         edges |-> [i \in 1..Len(gb.edges) |-> stepbystep_edge(gb.edges[i], kf, kt)]]

\* assign_data(gb, domain, keyword_flow_storage, keyword_transport_storage)
\* of the 3D notebook
assign_data_3d(gb, domain, kf, kt) ==
    LET node(g) ==
          LET top == g.dim = dim_max(gb)
              kxx == ScaleVec(Ones(g.num_cells), IF top THEN 1 ELSE FracPerm3d)
              b == left_right_bc(g, domain)
              params_flow == [second_order_tensor |-> SecondOrderTensor(kxx),
                              bc |-> b.bc, bc_values |-> b.bc_values,
                              time_step |-> FlowTimeStep3d]
              params_transport == [bc |-> b.bc, bc_values |-> b.bc_values,
                                   advection_weight |-> 1]
              d1 == initialize_default_data(g, NoData, "flow", params_flow, kf)
              d2 == initialize_default_data(g, d1, "transport", params_transport, kt)
          IN  [d2 EXCEPT !.pp_STATE = [dimension |-> ScaleVec(Ones(g.num_cells), g.dim)]]
    IN  [nodes |-> [i \in 1..Len(gb.nodes) |-> node(gb.nodes[i])],
         edges |-> [i \in 1..Len(gb.edges) |-> stepbystep_edge(gb.edges[i], kf, kt)]]

\* The parameter loops of the fracture sample setup.  A quantity
\* aperture^n * fracture_perm^m is kept as its pair of exponents.
\* assign_data(gb, kw_flow) of the notebook on term_filter: Dirichlet inflow
\* at x < tol with value 1 and outflow at x > 1 - tol on the unit square,
\* whose side is MaxCoord in the units of the grid coordinates
assign_data_filter(gb, kw_flow) ==
    LET node(g) ==
          LET b_faces == Nonzero(g.tags["domain_boundary_faces"])
              x(k) == g.face_centers[0][b_faces[k]]
              b_inflow == [k \in 1..Len(b_faces) |-> x(k) < tol]
              b_outflow == [k \in 1..Len(b_faces) |-> x(k) > MaxCoord - tol]
              labels == [k \in 1..Len(b_faces) |->
                            IF b_inflow[k] \/ b_outflow[k] THEN "dir" ELSE "neu"]
              bc == IF Len(b_faces) # 0 THEN BoundaryCondition(g, b_faces, labels)
                    ELSE DefaultBoundaryCondition(g)
              bc_val == [f \in 1..g.num_faces |->
                            IF \E k \in 1..Len(b_faces) : b_faces[k] = f /\ b_inflow[k]
                            THEN 1 ELSE 0]
          IN  initialize_default_data(g, NoData, "flow",
                                      [bc |-> bc, bc_values |-> bc_val], kw_flow)
    IN  [nodes |-> [i \in 1..Len(gb.nodes) |-> node(gb.nodes[i])],
         edges |-> <<>>]

sample_k_Everywhere(gb, g) ==
    [c \in 1..g.num_cells |-> [aperture |-> dim_max(gb) - g.dim, fracture_perm |-> 1]]
\* k = np.ones(g.num_cells) * specific_volumes; k *= fracture_perm below dim_max
sample_k(gb, g) ==
    LET specific_volumes == [aperture |-> dim_max(gb) - g.dim, fracture_perm |-> 0]
        ones == [c \in 1..g.num_cells |-> specific_volumes]
    IN  IF g.dim < dim_max(gb)
        THEN [c \in 1..g.num_cells |-> [ones[c] EXCEPT !.fracture_perm = @ + 1]]
        ELSE ones

sample_bc_val_Everywhere(g) == [f \in 1..g.num_faces |-> g.face_centers[1][f]]
\* bc_val = np.zeros(g.num_faces); bc_val[b_faces] = g.face_centers[1, b_faces]
sample_bc_val(g) ==
    [f \in 1..g.num_faces |->
        IF g.tags["domain_boundary_faces"][f] THEN g.face_centers[1][f] ELSE 0]

sample_parameters(gb, data_key) ==
    LET node(g) ==
          LET codim == dim_max(gb) - g.dim
              k == sample_k(gb, g)
              b_faces == Nonzero(g.tags["domain_boundary_faces"])
              bc == BoundaryCondition(g, b_faces, [i \in 1..Len(b_faces) |-> "dir"])
              bc_val == sample_bc_val(g)
              parameters == [second_order_tensor |-> SecondOrderTensor(k),
                             source |-> [hundredths |-> 1, cell_volumes |-> 1,
                                         aperture |-> codim],
                             bc |-> bc, bc_values |-> bc_val]
          IN  initialize_data(g, NoData, data_key, parameters)
        edge(mg) ==
          Update(initialize_data(mg, NoData, data_key,
                     [normal_diffusivity |-> [twice |-> 1, aperture |-> -1,
                                             fracture_perm |-> 1]]),
                 [mortar_grid |-> mg])
    IN  [nodes |-> [i \in 1..Len(gb.nodes) |-> node(gb.nodes[i])],
         edges |-> [i \in 1..Len(gb.edges) |-> edge(gb.edges[i])]]

(***************************************************************************)
(* The names the notebooks give to variables and operators, and the        *)
(* discretization objects they create.  An object is its class and the     *)
(* keyword it was constructed with; a coupling also holds the node         *)
(* discretizations it was given as master and slave.                       *)
(***************************************************************************)
flow_variable == "pressure"
transport_variable == "tracer"
edge_variable_flow == "darcy_flux"
edge_variable_transport_diffusion == "edge_diffusion"
edge_variable_transport_advection == "edge_advection"
mass_operator_key == "mass"
advection_operator_key == "advection"
diffusion_operator_key == "diffusion_tracer"

Discretization(cls, keyword) == [cls |-> cls, keyword |-> keyword]
RobinCoupling(keyword, master, slave) ==
    [cls |-> "pp.RobinCoupling", keyword |-> keyword, master |-> master, slave |-> slave]

\* The classes that multiply their contributions by 'time_step': the two
\* the notebooks define, and those of porepy.utils.derived_discretizations.
\* implicit_euler, which the notebooks describe as doing the same
TimeStepClasses ==
    {"ImplicitTpfa", "ImplicitScalarSource",
     "IE_discretizations.ImplicitMassMatrix",
     "IE_discretizations.ImplicitUpwind",
     "IE_discretizations.ImplicitUpwindCoupling"}

(***************************************************************************)
(* The library objects the cells drive: pp.Assembler, spsolve,             *)
(* compute_darcy_flux and pp.Exporter, as the notebooks use them.  The     *)
(* grid bucket data gbd is [nodes, edges], one data dictionary each.  A    *)
(* state or a solution of a variable is [step |-> n]: n counts the solves  *)
(* of the time-dependent problem that led to it, 0 being the initial state.*)
(***************************************************************************)
\* pp.Assembler(gb, active_variables=[...]); pp.Assembler(gb) has them all
Assembler_NoFilter(gb, active_variables) == [all |-> TRUE, active_variables |-> active_variables]
Assembler(gb, active_variables) == [all |-> FALSE, active_variables |-> active_variables]
AssemblerOfAll(gb) == [all |-> TRUE, active_variables |-> {}]
IsActive(a, v) == a.all \/ v \in a.active_variables

Registered(d) == HasKey(d, "PRIMARY_VARIABLES")

\* The terms an assembler works on: <<"node" or "edge", index, variable,
\* operator key, object>> for every operator registered for an active variable
NodeTerms(a, g_data) ==
    {t \in UNION {UNION {{<<"node", i, v, k, g_data.nodes[i].DISCRETIZATION[v][k]>> :
                              k \in DOMAIN g_data.nodes[i].DISCRETIZATION[v]} :
                         v \in DOMAIN g_data.nodes[i].DISCRETIZATION} :
                  i \in 1..Len(g_data.nodes)} : IsActive(a, t[3])}
EdgeTerms(a, g_data) ==
    {t \in UNION {{<<"edge", i, g_data.edges[i].COUPLING_DISCRETIZATION[k].variable, k,
                     g_data.edges[i].COUPLING_DISCRETIZATION[k].discretization>> :
                       k \in DOMAIN g_data.edges[i].COUPLING_DISCRETIZATION} :
                  i \in 1..Len(g_data.edges)} :
        /\ IsActive(a, t[3])
        /\ IsActive(a, g_data.edges[t[2]].COUPLING_DISCRETIZATION[t[4]].node_variable)}
Terms(a, g_data) == NodeTerms(a, g_data) \cup EdgeTerms(a, g_data)

DataOf(g_data, t) == IF t[1] = "node" THEN g_data.nodes[t[2]] ELSE g_data.edges[t[2]]

AllRegistered(g_data) ==
    /\ \A i \in 1..Len(g_data.nodes) : Registered(g_data.nodes[i])
    /\ \A i \in 1..Len(g_data.edges) : Registered(g_data.edges[i])

\* What discretize stores for a term: the class that computed it and the
\* Darcy flux found in the parameters of the term's keyword at that moment
Discretized(d, obj) ==
    [cls |-> obj.cls,
     darcy_flux |-> Get(d.PARAMETERS[obj.keyword], "darcy_flux", DefaultValue)]

\* The name under which a discretization stores its matrices in
\* d[pp.DISCRETIZATION_MATRICES][keyword]: 'flux' (with 'bound_flux') for
\* Tpfa and its subclass, 'bound_source' for ScalarSource; the name depends
\* on the class only, so objects of one class and keyword share the entry
MatrixName(obj) ==
    CASE obj.cls \in {"pp.Tpfa", "ImplicitTpfa"} -> "flux"
      [] obj.cls = "pp.ScalarSource" -> "bound_source"
      [] OTHER -> obj.cls

StoreMatrices(d, terms) ==
    [d EXCEPT !.DISCRETIZATION_MATRICES =
        [kw \in DOMAIN @ |->
            Update(@[kw],
                   [k \in {MatrixName(t[5]) : t \in {u \in terms : u[5].keyword = kw}} |->
                       Discretized(d, (CHOOSE u \in terms :
                                          MatrixName(u[5]) = k /\ u[5].keyword = kw)[5])])]]

\* term_filter=None, and term_filter=[...] naming the terms to discretize
NoFilter == [all |-> TRUE, terms |-> {}]
TermFilter(terms) == [all |-> FALSE, terms |-> terms]
Filtered(terms, term_filter) == {t \in terms : term_filter.all \/ t[4] \in term_filter.terms}

\* assembler.discretize(term_filter=term_filter)
Assembler_discretize_term_filter(a, g_data, term_filter) ==
    IF ~AllRegistered(g_data) THEN Raised("KeyError")
    ELSE IF \E t \in Filtered(Terms(a, g_data), term_filter) :
               ~HasKey(DataOf(g_data, t).PARAMETERS, t[5].keyword)
    THEN Raised("KeyError")
    ELSE Returned(
      [nodes |-> [i \in 1..Len(g_data.nodes) |->
                     StoreMatrices(g_data.nodes[i],
                         {t \in Filtered(NodeTerms(a, g_data), term_filter) : t[2] = i})],
       edges |-> [i \in 1..Len(g_data.edges) |->
                     StoreMatrices(g_data.edges[i],
                         {t \in Filtered(EdgeTerms(a, g_data), term_filter) : t[2] = i})]])

\* assembler.discretize()
Assembler_discretize(a, g_data) == Assembler_discretize_term_filter(a, g_data, NoFilter)

\* The variables an assembler has degrees of freedom for
Variables(a, g_data) ==
    {v \in UNION ({g_data.nodes[i].PRIMARY_VARIABLES : i \in 1..Len(g_data.nodes)}
                  \cup {g_data.edges[i].PRIMARY_VARIABLES : i \in 1..Len(g_data.edges)}) :
        IsActive(a, v)}

IsDiscretized(g_data, t) ==
    LET d == DataOf(g_data, t)
    IN  /\ HasKey(d.DISCRETIZATION_MATRICES, t[5].keyword)
        /\ HasKey(d.DISCRETIZATION_MATRICES[t[5].keyword], MatrixName(t[5]))

\* The terms that read the previous state d[pp.STATE][variable]
MassTerms(a, g_data) ==
    {t \in NodeTerms(a, g_data) : t[5].cls = "IE_discretizations.ImplicitMassMatrix"}

RECURSIVE MaxStep(_)
MaxStep(S) == IF S = {} THEN 0
              ELSE LET x == CHOOSE y \in S : TRUE
                       m == MaxStep(S \ {x})
                   IN  IF x > m THEN x ELSE m

\* assembler.assemble_matrix_rhs(): the system (A, b) of the active
\* variables; its right-hand side holds the previous state of the variables
\* with a mass term
Assembler_assemble_matrix_rhs(name, a, g_data) ==
    IF ~AllRegistered(g_data) THEN Raised("KeyError")
    ELSE IF \E t \in Terms(a, g_data) : ~IsDiscretized(g_data, t) THEN Raised("KeyError")
    ELSE IF \E t \in MassTerms(a, g_data) : ~HasKey(DataOf(g_data, t).pp_STATE, t[3])
    THEN Raised("KeyError")
    ELSE Returned([assembler |-> name,
                   variables |-> Variables(a, g_data),
                   previous |-> MaxStep({DataOf(g_data, t).pp_STATE[t[3]].step :
                                            t \in MassTerms(a, g_data)})])

\* sps.linalg.spsolve(A, b): a value for every variable of the system
spsolve(system) == [v \in system.variables |-> [step |-> system.previous + 1]]

WriteState(d, a, x) ==
    [d EXCEPT !.pp_STATE =
        Update(@, [v \in {w \in d.PRIMARY_VARIABLES : IsActive(a, w)} |-> x[v]])]

\* assembler.distribute_variable(x)
Assembler_distribute_variable(a, g_data, x) ==
    IF ~AllRegistered(g_data) THEN Raised("KeyError")
    ELSE IF Variables(a, g_data) # DOMAIN x THEN Raised("ValueError")
    ELSE Returned([nodes |-> [i \in 1..Len(g_data.nodes) |-> WriteState(g_data.nodes[i], a, x)],
                   edges |-> [i \in 1..Len(g_data.edges) |-> WriteState(g_data.edges[i], a, x)]])

\* pp.fvutils.compute_darcy_flux(gb, lam_name=..., keyword_store=...): the
\* flux of the pressure state and of the mortar state lam_name, stored as
\* 'darcy_flux' in the parameters of keyword_store
compute_darcy_flux(g_data, lam_name, keyword_store) ==
    IF \/ \E i \in 1..Len(g_data.nodes) :
             ~HasKey(g_data.nodes[i].pp_STATE, flow_variable)
                \/ ~HasKey(g_data.nodes[i].PARAMETERS, keyword_store)
       \/ \E i \in 1..Len(g_data.edges) :
             ~HasKey(g_data.edges[i].pp_STATE, lam_name)
                \/ ~HasKey(g_data.edges[i].PARAMETERS, keyword_store)
    THEN Raised("KeyError")
    ELSE Returned(
      [nodes |-> [i \in 1..Len(g_data.nodes) |->
          [g_data.nodes[i] EXCEPT !.PARAMETERS[keyword_store] =
              Update(@, [darcy_flux |-> [pressure |-> g_data.nodes[i].pp_STATE[flow_variable]]])]],
       edges |-> [i \in 1..Len(g_data.edges) |->
          [g_data.edges[i] EXCEPT !.PARAMETERS[keyword_store] =
              Update(@, [darcy_flux |-> [pressure |-> g_data.edges[i].pp_STATE[lam_name]]])]]])

\* pp.Exporter(gb, name, folder), write_vtk and write_pvd: the files written
Exporter(gb, name, folder) == [name |-> name, folder |-> folder, vtk |-> <<>>, pvd |-> <<>>]

Exporter_write_vtk(exporter, g_data, fields, time_step) ==
    IF \E i \in 1..Len(g_data.nodes) : \E f \in fields : ~HasKey(g_data.nodes[i].pp_STATE, f)
    THEN Raised("KeyError")
    ELSE Returned([exporter EXCEPT !.vtk =
             Append(@, [time_step |-> time_step,
                        data |-> [f \in fields |->
                                     [i \in 1..Len(g_data.nodes) |->
                                         g_data.nodes[i].pp_STATE[f]]]])])

Exporter_write_pvd(exporter, time_steps) == [exporter EXCEPT !.pvd = time_steps]

(***************************************************************************)
(* The cells of the notebooks as sequences of operations, in the order of  *)
(* the cells and of the statements in them.  An operation names the global *)
(* names it reads and writes; loops are `for`/`while` with the index of    *)
(* the operation after the loop, closed by a `jump` back to the loop head. *)
(***************************************************************************)
Const(v) == [k |-> "const", v |-> v]
Name(n) == [k |-> "name", a |-> n]
Input(n) == [k |-> "input", a |-> n]
Bin(kind, a, b) == [k |-> kind, a |-> a, b |-> b]
Assign(into, e) == [op |-> "assign", into |-> into, e |-> e]
Define(needs, names) == [op |-> "define", needs |-> needs, names |-> names]
Discretize(on) == [op |-> "discretize", on |-> on, term_filter |-> NoFilter]
DiscretizeTerms(on, terms) == [op |-> "discretize", on |-> on, term_filter |-> TermFilter(terms)]
Assemble(on, into) == [op |-> "assemble_matrix_rhs", on |-> on, into |-> into]
Solve(system, into) == [op |-> "spsolve", system |-> system, into |-> into]
Distribute(on, x) == [op |-> "distribute_variable", on |-> on, x |-> x]
WriteVtk(on, fields, time_step) ==
    [op |-> "write_vtk", on |-> on, fields |-> fields, time_step |-> time_step]
If(cond, else) == [op |-> "if", cond |-> cond, else |-> else]
Jump(to) == [op |-> "jump", to |-> to]

\* flow_discretization and edge_discretization_flow of the step-by-step notebooks
FlowObjects ==
    LET flow_discretization == Discretization("pp.Tpfa", flow_keyword)
    IN  [flow_discretization |-> flow_discretization,
         edge_discretization_flow |->
             RobinCoupling(flow_keyword, flow_discretization, flow_discretization)]

ImplicitTpfaClass == [ImplicitTpfa |-> [class |-> "ImplicitTpfa", base |-> "pp.Tpfa"]]

\* The cell "Discretization objects" of the transport problem; with a plain
\* pp.Tpfa for the diffusion term in the first variant
TransportObjects_PlainTpfa ==
    LET diffusion_discretization == Discretization("pp.Tpfa", transport_keyword)
    IN  [mass_discretization |->
             Discretization("IE_discretizations.ImplicitMassMatrix", transport_keyword),
         advection_discretization |->
             Discretization("IE_discretizations.ImplicitUpwind", transport_keyword),
         diffusion_discretization |-> diffusion_discretization,
         edge_discretization_transport_diffusion |->
             RobinCoupling(transport_keyword, diffusion_discretization,
                           diffusion_discretization),
         edge_discretization_transport_advection |->
             Discretization("IE_discretizations.ImplicitUpwindCoupling", transport_keyword)]

TransportObjects ==
    LET diffusion_discretization == Discretization("ImplicitTpfa", transport_keyword)
    IN  [mass_discretization |->
             Discretization("IE_discretizations.ImplicitMassMatrix", transport_keyword),
         advection_discretization |->
             Discretization("IE_discretizations.ImplicitUpwind", transport_keyword),
         diffusion_discretization |-> diffusion_discretization,
         edge_discretization_transport_diffusion |->
             RobinCoupling(transport_keyword, diffusion_discretization,
                           diffusion_discretization),
         edge_discretization_transport_advection |->
             Discretization("IE_discretizations.ImplicitUpwindCoupling", transport_keyword)]

\* The cell "Distribute the discretization objects": what it puts on every
\* node and, in the loop nested in the node loop, on every edge
RegisterNodes ==
    [op |-> "register_nodes",
     PRIMARY_VARIABLES |-> {flow_variable, transport_variable},
     DISCRETIZATION |->
        [pressure |-> [diffusion |-> "flow_discretization"],
         tracer |-> [mass |-> "mass_discretization",
                     advection |-> "advection_discretization",
                     diffusion_tracer |-> "diffusion_discretization"]]]

Couple(node_variable, node_key, variable, discretization) ==
    [node_variable |-> node_variable, node_key |-> node_key,
     variable |-> variable, discretization |-> discretization]

RegisterEdges ==
    [op |-> "register_edges", nested |-> TRUE,
     PRIMARY_VARIABLES |-> {edge_variable_flow, edge_variable_transport_diffusion,
                            edge_variable_transport_advection},
     COUPLING_DISCRETIZATION |->
        [darcy_flux |->
            Couple(flow_variable, "diffusion", edge_variable_flow,
                   "edge_discretization_flow"),
         coupling_operator_transport_diffusion |->
            Couple(transport_variable, diffusion_operator_key,
                   edge_variable_transport_diffusion,
                   "edge_discretization_transport_diffusion"),
         coupling_operator_transport_advection |->
            Couple(transport_variable, advection_operator_key,
                   edge_variable_transport_advection,
                   "edge_discretization_transport_advection")]]

FlowAssembler ==
    [op |-> "Assembler", into |-> "assembler_flow", all |-> FALSE,
     active_variables |-> {flow_variable, edge_variable_flow}]
TransportAssembler ==
    [op |-> "Assembler", into |-> "assembler_transport", all |-> FALSE,
     active_variables |-> {transport_variable, edge_variable_transport_diffusion,
                           edge_variable_transport_advection}]

\* The cells both step-by-step notebooks share, up to the two assemblers
Setup ==
    <<[op |-> "create_domain"],
      [op |-> "assign_data"],
      [op |-> "set_state", variable |-> transport_variable],
      Define({}, FlowObjects),
      Define({}, ImplicitTpfaClass),
      Define({"ImplicitTpfa"}, TransportObjects),
      RegisterNodes,
      RegisterEdges,
      FlowAssembler,
      TransportAssembler>>

FlowSolve ==
    <<Discretize("assembler_flow"),
      Assemble("assembler_flow", "A_flow"),
      Solve("A_flow", "pressure"),
      Distribute("assembler_flow", "pressure")>>

ComputeDarcyFlux ==
    [op |-> "compute_darcy_flux", lam_name |-> "darcy_flux",
     keyword_store |-> transport_keyword]

TransportStep ==
    <<Assemble("assembler_transport", "A_transport"),
      Solve("A_transport", "tracer")>>

TracerExporter ==
    [op |-> "Exporter", into |-> "export_transport", name |-> "tracer"]

\* step-by-step-simplest-transport-with-fracture.ipynb, with the flux
\* computed after the transport discretization in the first variant
Cells_2d_FluxLate ==
    Setup \o FlowSolve
    \o <<Discretize("assembler_transport"),
         ComputeDarcyFlux,
         TracerExporter,
         Assign("time_steps", [k |-> "list"]),
         Assign("params2", [k |-> "params", keyword |-> transport_keyword]),
         Assign("save_every", Const(1)),
         Assign("n_steps", [k |-> "n_steps", a |-> "params2"]),
         WriteVtk("export_transport", {"tracer"}, Const(0)),
         [op |-> "for", var |-> "i", count |-> "n_steps", exit |-> 30]>>
    \o TransportStep
    \o <<Distribute("assembler_transport", "tracer"),
         If(Bin("mod0", "i", "save_every"), 29),
         WriteVtk("export_transport", {"tracer"}, Bin("floordiv", "i", "save_every")),
         Jump(23),
         Assign("time_steps", [k |-> "arange", a |-> "params2", b |-> "save_every"]),
         [op |-> "write_pvd", on |-> "export_transport", time_steps |-> "time_steps"]>>

Cells_2d ==
    Setup \o FlowSolve
    \o <<ComputeDarcyFlux,
         Discretize("assembler_transport"),
         TracerExporter,
         Assign("time_steps", [k |-> "list"]),
         Assign("params2", [k |-> "params", keyword |-> transport_keyword]),
         Assign("save_every", Const(1)),
         Assign("n_steps", [k |-> "n_steps", a |-> "params2"]),
         WriteVtk("export_transport", {"tracer"}, Const(0)),
         [op |-> "for", var |-> "i", count |-> "n_steps", exit |-> 30]>>
    \o TransportStep
    \o <<Distribute("assembler_transport", "tracer"),
         If(Bin("mod0", "i", "save_every"), 29),
         WriteVtk("export_transport", {"tracer"}, Bin("floordiv", "i", "save_every")),
         Jump(23),
         Assign("time_steps", [k |-> "arange", a |-> "params2", b |-> "save_every"]),
         [op |-> "write_pvd", on |-> "export_transport", time_steps |-> "time_steps"]>>

\* step-by-step-simplest-transport-with-fracture-3D.ipynb, with the export
\* of a step before the solution is distributed in the first variant
Cells_3d_ExportFirst ==
    Setup \o FlowSolve
    \o <<ComputeDarcyFlux,
         Discretize("assembler_transport"),
         Assign("dt", Const(1)),
         Assign("time", Const(0)),
         Assign("end_time", Bin("mul", Name("dt"), Input("steps"))),
         TracerExporter,
         Assign("time_steps", [k |-> "list"]),
         WriteVtk("export_transport", {"tracer"}, Name("time")),
         Assign("time_steps", Bin("append", "time_steps", "time")),
         Assign("saved_sols", [k |-> "list"]),
         Assign("saved_sols3", [k |-> "list"]),
         Assign("curr_state", [k |-> "state", variable |-> "tracer", dim |-> 3]),
         Assign("saved_sols", Bin("append", "saved_sols", "curr_state")),
         Assign("saved_sols3", Bin("append", "saved_sols3", "curr_state")),
         [op |-> "while", cond |-> Bin("lt", "time", "end_time"), exit |-> 46]>>
    \o TransportStep
    \o <<Assign("time", Bin("add", Name("time"), Name("dt"))),
         Assign("time_steps", Bin("append", "time_steps", "time")),
         WriteVtk("export_transport", {"tracer"}, Name("time")),
         Distribute("assembler_transport", "tracer"),
         If(Bin("eq", "time", "dt"), 39),
         Assign("curr_state", [k |-> "state", variable |-> "tracer", dim |-> 3]),
         Assign("saved_sols3", Bin("append", "saved_sols3", "curr_state")),
         If([k |-> "eq_diff", a |-> "time", b |-> "end_time", c |-> "dt"], 42),
         Assign("curr_state", [k |-> "state", variable |-> "tracer", dim |-> 3]),
         Assign("saved_sols3", Bin("append", "saved_sols3", "curr_state")),
         If(Bin("mod0", "time", "dt"), 45),
         Assign("curr_state", [k |-> "state", variable |-> "tracer", dim |-> 3]),
         Assign("saved_sols", Bin("append", "saved_sols", "curr_state")),
         Jump(29),
         Assign("time_steps", Name("time_steps")),
         [op |-> "write_pvd", on |-> "export_transport", time_steps |-> "time_steps"]>>

Cells_3d ==
    Setup \o FlowSolve
    \o <<ComputeDarcyFlux,
         Discretize("assembler_transport"),
         Assign("dt", Const(1)),
         Assign("time", Const(0)),
         Assign("end_time", Bin("mul", Name("dt"), Input("steps"))),
         TracerExporter,
         Assign("time_steps", [k |-> "list"]),
         WriteVtk("export_transport", {"tracer"}, Name("time")),
         Assign("time_steps", Bin("append", "time_steps", "time")),
         Assign("saved_sols", [k |-> "list"]),
         Assign("saved_sols3", [k |-> "list"]),
         Assign("curr_state", [k |-> "state", variable |-> "tracer", dim |-> 3]),
         Assign("saved_sols", Bin("append", "saved_sols", "curr_state")),
         Assign("saved_sols3", Bin("append", "saved_sols3", "curr_state")),
         [op |-> "while", cond |-> Bin("lt", "time", "end_time"), exit |-> 46]>>
    \o TransportStep
    \o <<Assign("time", Bin("add", Name("time"), Name("dt"))),
         Assign("time_steps", Bin("append", "time_steps", "time")),
         Distribute("assembler_transport", "tracer"),
         WriteVtk("export_transport", {"tracer"}, Name("time")),
         If(Bin("eq", "time", "dt"), 39),
         Assign("curr_state", [k |-> "state", variable |-> "tracer", dim |-> 3]),
         Assign("saved_sols3", Bin("append", "saved_sols3", "curr_state")),
         If([k |-> "eq_diff", a |-> "time", b |-> "end_time", c |-> "dt"], 42),
         Assign("curr_state", [k |-> "state", variable |-> "tracer", dim |-> 3]),
         Assign("saved_sols3", Bin("append", "saved_sols3", "curr_state")),
         If(Bin("mod0", "time", "dt"), 45),
         Assign("curr_state", [k |-> "state", variable |-> "tracer", dim |-> 3]),
         Assign("saved_sols", Bin("append", "saved_sols", "curr_state")),
         Jump(29),
         Assign("time_steps", Name("time_steps")),
         [op |-> "write_pvd", on |-> "export_transport", time_steps |-> "time_steps"]>>

\* sample_setup_with_fractures.ipynb
SampleObjects ==
    [flow_discretization |-> Discretization("pp.Tpfa", "flow"),
     source_discretization |-> Discretization("pp.ScalarSource", "flow")]
SampleCoupling ==
    [flow_coupling_discretization |->
        RobinCoupling("flow", Discretization("pp.Tpfa", "flow"),
                      Discretization("pp.Tpfa", "flow"))]

Cells_sample ==
    <<[op |-> "create_domain"],
      Assign("data_key", Const("flow")),
      [op |-> "assign_data"],
      Define({}, SampleObjects),
      [op |-> "register_nodes",
       PRIMARY_VARIABLES |-> {"pressure"},
       DISCRETIZATION |-> [pressure |-> [diffusive |-> "flow_discretization",
                                         source |-> "source_discretization"]]],
      Define({"flow_discretization"}, SampleCoupling),
      [op |-> "register_edges", nested |-> FALSE,
       PRIMARY_VARIABLES |-> {"mortar_flux"},
       COUPLING_DISCRETIZATION |->
          [lambda |-> Couple("pressure", "diffusive", "mortar_flux",
                             "flow_coupling_discretization")]],
      [op |-> "Assembler", into |-> "assembler", all |-> TRUE, active_variables |-> {}],
      Discretize("assembler"),
      Assemble("assembler", "A"),
      Solve("A", "solution"),
      Distribute("assembler", "solution"),
      [op |-> "plot_grid", variable |-> "pressure"]>>

\* The notebook on term_filter: one grid, one variable, two Tpfa terms of
\* the same keyword; an unfiltered discretize and solve, then a new
\* assembler, discretize(term_filter=[flow_operator_key_1]) and solve
flow_operator_key_1 == "diffusion_1"
flow_operator_key_2 == "diffusion_2"
FilterRegister ==
    [op |-> "register_nodes",
     PRIMARY_VARIABLES |-> {flow_variable},
     DISCRETIZATION |-> [pressure |-> [diffusion_1 |-> "flow_discretization_1",
                                       diffusion_2 |-> "flow_discretization_2"]]]
FilterAssembler == [op |-> "Assembler", into |-> "assembler", all |-> TRUE,
                    active_variables |-> {}]
FilterSolve == <<Assemble("assembler", "A"), Solve("A", "x"), Distribute("assembler", "x")>>

Cells_filter_OnlyFiltered ==
    <<[op |-> "create_domain"],
      [op |-> "assign_data"],
      Define({}, [flow_discretization_1 |-> Discretization("pp.Tpfa", flow_keyword),
                  flow_discretization_2 |-> Discretization("pp.Tpfa", transport_keyword)]),
      FilterRegister,
      FilterAssembler,
      DiscretizeTerms("assembler", {flow_operator_key_1})>>
    \o FilterSolve
Cells_filter ==
    <<[op |-> "create_domain"],
      [op |-> "assign_data"],
      Define({}, [flow_discretization_1 |-> Discretization("pp.Tpfa", flow_keyword),
                  flow_discretization_2 |-> Discretization("pp.Tpfa", flow_keyword)]),
      FilterRegister,
      FilterAssembler,
      Discretize("assembler")>>
    \o FilterSolve
    \o <<[op |-> "plot_grid", variable |-> flow_variable],
          FilterAssembler,
          DiscretizeTerms("assembler", {flow_operator_key_1})>>
    \o FilterSolve

\* The notebook on meshing of fractures: a 2D network is meshed, to_vtk is
\* called on it, the bucket is exported; then a 3D network and its to_vtk.
\* The 2D class has no method to_vtk (the traceback recorded in the cell).
FractureNetwork2d_WithToVtk == [cls |-> "pp.FractureNetwork2d", methods |-> {"mesh", "to_vtk"}]
FractureNetwork2d == [cls |-> "pp.FractureNetwork2d", methods |-> {"mesh"}]
FractureNetwork3d == [cls |-> "pp.FractureNetwork3d", methods |-> {"mesh", "to_vtk"}]
NoTimeStep == -1   \* save.write_vtk(): time_step=None
Cells_meshing ==
    <<Define({}, [network_2d |-> FractureNetwork2d]),
      [op |-> "create_domain"],
      [op |-> "to_vtk", on |-> "network_2d"],
      [op |-> "Exporter", into |-> "save", name |-> "frac_grid"],
      WriteVtk("save", {}, Const(NoTimeStep)),
      Define({}, [network |-> FractureNetwork3d]),
      [op |-> "to_vtk", on |-> "network"]>>

\* The Dockerfile, one entry per instruction.  Paths are sequences of names;
\* a relative path is taken from the WORKDIR.  `dir` of a clone is the
\* directory git derives from the URL.
PorepyUrl == "https://github.com/pmgbergen/porepy.git"
MastersprojectUrl == "https://github.com/haakon-e/mastersproject.git"
Install(tool, names) == [op |-> "install", tool |-> tool, names |-> names]
CondaDevelop(path) == [op |-> "conda_develop", path |-> path]
GitClone(url, dir) ==
    [op |-> "git_clone", single_branch |-> TRUE, branch |-> "develop",
     url |-> url, dir |-> dir]
Dockerfile ==
    <<[op |-> "FROM", image |-> "intelpython/intelpython3_core"],
      Install("conda config --append channels", {"conda-forge"}),
      Install("conda config --append channels", {"defaults"}),
      Install("conda install",
              {"meshio", "networkx", "sympy", "matplotlib", "cython", "future",
               "shapely", "pytest", "pytest-cov", "pytest-runner", "black", "mypy",
               "flake8", "pendulum", "pandas", "pydantic", "pytest-mock"}),
      Install("pip install", {"vtk"}),
      Install("apt-get install",
              {"libgl1", "libglu1", "libxcursor1", "libxft2", "libxinerama1"}),
      Install("pip install", {"gmsh"}),
      Install("conda install", {"tornado"}),
      Install("conda install", {"conda-build"}),
      Install("conda install", {"pypardiso"}),
      [op |-> "WORKDIR", path |-> <<"home">>],
      [op |-> "wget", file |-> <<"polyhedron.py">>,
       url |-> "https://raw.githubusercontent.com/keileg/polyhedron/master/polyhedron.py"],
      [op |-> "mkdir", dir |-> <<"poly">>],
      [op |-> "mv", from |-> <<"polyhedron.py">>,
       to |-> <<"poly", "robust_point_in_polyhedron.py">>],
      CondaDevelop(<<"poly">>),
      GitClone(PorepyUrl, <<"porepy">>),
      CondaDevelop(<<"porepy", "src">>),
      GitClone(MastersprojectUrl, <<"mastersproject">>),
      CondaDevelop(<<"mastersproject", "src">>),
      CondaDevelop(<<"mastersproject", "src", "mastersproject">>)>>

\* The test notebook on the pressure at the injection point: the model is
\* run on shear zone S1_2 and p_exp is read in the well cell.  The model is
\* not part of the notebook; what it computes there is what the three
\* executions of the reading cell display, here in kPa.
RecordedWellPressures == {98489, 106471, 98488}
Cells_injection ==
    <<[op |-> "run_abstract_model", into |-> "setup",
       params |-> [shearzone_names |-> <<"S1_2">>]],
      [op |-> "well_pressure", of |-> "setup"]>>

RunNotebooks == {"2d", "3d", "sample", "filter", "meshing", "dockerfile", "injection"}
Cells(n) == CASE n = "2d" -> Cells_2d
              [] n = "3d" -> Cells_3d
              [] n = "sample" -> Cells_sample
              [] n = "filter" -> Cells_filter
              [] n = "meshing" -> Cells_meshing
              [] n = "dockerfile" -> Dockerfile
              [] n = "injection" -> Cells_injection
              [] OTHER -> <<>>

(***************************************************************************)
(* Running a notebook from its first cell to its last.  Start picks the    *)
(* notebook and what the run depends on: the time step and the end time    *)
(* handed to assign_data (2D) and the number of steps to the end time      *)
(* (3D; 30 in the notebook).  An operation that raises ends the run.       *)
(***************************************************************************)
\* int(np.round(a / b)): halves go to the even neighbour
RoundDiv(a, b) ==
    LET q == a \div b
        r == a % b
    IN  IF 2 * r < b THEN q
        ELSE IF 2 * r > b THEN q + 1
        ELSE IF q % 2 = 0 THEN q ELSE q + 1

\* np.arange(start, stop, step)
RECURSIVE arange(_, _, _)
arange(start, stop, step) ==
    IF start >= stop THEN <<>> ELSE <<start>> \o arange(start + step, stop, step)

RECURSIVE FirstOfDim(_, _, _)
FirstOfDim(nodes, dim, i) ==
    IF i > Len(nodes) THEN 0
    ELSE IF nodes[i].dim = dim THEN i ELSE FirstOfDim(nodes, dim, i + 1)
\* gb.grids_of_dimension(dim)[0], as the index of the node
grids_of_dimension_0(gb, dim) == FirstOfDim(gb.nodes, dim, 1)

Defined(en, names) == names \subseteq DOMAIN en

\* The value of the right-hand side of an assignment
RECURSIVE Eval(_, _, _)
Eval(e, en, g_data) ==
    CASE e.k = "const" -> Returned(e.v)
      [] e.k = "list" -> Returned(<<>>)
      [] e.k = "name" ->
            IF Defined(en, {e.a}) THEN Returned(en[e.a]) ELSE Raised("NameError")
      [] e.k = "input" -> Returned(en["inputs"][e.a])
      [] e.k = "params" ->
            LET i == grids_of_dimension_0(en["gb"], dim_max(en["gb"]))
            IN  IF i = 0 THEN Raised("IndexError")
                ELSE IF ~HasKey(g_data.nodes[i].PARAMETERS, e.keyword)
                THEN Raised("KeyError")
                ELSE Returned([node |-> i, keyword |-> e.keyword])
      [] e.k = "n_steps" ->
            IF ~Defined(en, {e.a}) THEN Raised("NameError")
            ELSE LET P == g_data.nodes[en[e.a].node].PARAMETERS[en[e.a].keyword]
                 IN  IF ~(HasKey(P, "t_max") /\ HasKey(P, "time_step"))
                     THEN Raised("KeyError")
                     ELSE Returned(RoundDiv(P["t_max"], P["time_step"]))
      [] e.k = "arange" ->
            IF ~Defined(en, {e.a, e.b}) THEN Raised("NameError")
            ELSE LET P == g_data.nodes[en[e.a].node].PARAMETERS[en[e.a].keyword]
                 IN  Returned(arange(0, P["t_max"] + P["time_step"],
                                     en[e.b] * P["time_step"]))
      [] e.k = "state" ->
            LET i == grids_of_dimension_0(en["gb"], e.dim)
            IN  IF i = 0 THEN Raised("IndexError")
                ELSE IF ~HasKey(g_data.nodes[i].pp_STATE, e.variable)
                THEN Raised("KeyError")
                ELSE Returned(g_data.nodes[i].pp_STATE[e.variable])
      [] e.k = "append" ->
            IF ~Defined(en, {e.a, e.b}) THEN Raised("NameError")
            ELSE Returned(Append(en[e.a], en[e.b]))
      [] e.k = "floordiv" ->
            IF ~Defined(en, {e.a, e.b}) THEN Raised("NameError")
            ELSE Returned(en[e.a] \div en[e.b])
      [] e.k \in {"mul", "add"} ->
            LET x == Eval(e.a, en, g_data)
                y == Eval(e.b, en, g_data)
            IN  IF x.exc # "none" THEN x
                ELSE IF y.exc # "none" THEN y
                ELSE Returned(IF e.k = "mul" THEN x.val * y.val ELSE x.val + y.val)

\* The condition of an `if` or a `while`
Holds(c, en) ==
    CASE c.k = "mod0" -> en[c.a] % en[c.b] = 0
      [] c.k = "eq" -> en[c.a] = en[c.b]
      [] c.k = "eq_diff" -> en[c.a] = en[c.b] - en[c.c]
      [] c.k = "lt" -> en[c.a] < en[c.b]

Running == nb \in RunNotebooks /\ pc \in 1..Len(Cells(nb))
Stmt == Cells(nb)[pc]
At(o) == Running /\ Stmt.op = o

Event(o, on, exc, val) == [op |-> o, on |-> on, exc |-> exc, val |-> val]

\* The operation at pc has run and returned or raised r: what it leaves
\* behind.  An exception ends the run where it is (pc = -1) and changes
\* nothing else.
Done(on, r, val, g_data, a, en, to) ==
    /\ log' = Append(log, Event(Stmt.op, on, r.exc, IF r.exc = "none" THEN val ELSE <<>>))
    /\ IF r.exc = "none"
       THEN pc' = to /\ gbd' = g_data /\ asm' = a /\ env' = en
       ELSE pc' = -1 /\ UNCHANGED <<gbd, asm, env>>
    /\ UNCHANGED <<nb, unitVars>>

NameError(names) == IF Defined(env, names) THEN Returned(<<>>) ELSE Raised("NameError")

RunInputs ==
    {[dt |-> dt, t_max |-> t_max, steps |-> steps] :
        dt \in 1..MaxDt, t_max \in 1..(MaxSteps * MaxDt), steps \in 1..MaxSteps}

Bucket3 ==
    [nodes |-> <<[Rock EXCEPT !.dim = 3], [Fracture EXCEPT !.dim = 2]>>,
     edges |-> <<MortarGrid(1, 3, 1)>>]
\* The branches of the two remote repositories; which of them is the
\* remote's default branch is not in the hands of the recipe
RemoteBranches == {"master", "develop"}

Bucket1 == [nodes |-> <<Rock>>, edges |-> <<>>]
Bucket2 == [nodes |-> <<Rock, Fracture>>, edges |-> <<MortarGrid(1, 3, 1)>>]

Start ==
    /\ nb = "none"
    /\ op = "none"
    /\ \E n \in RunNotebooks, in \in RunInputs :
        /\ n = "2d" => in.steps = 1 /\ RoundDiv(in.t_max, in.dt) <= MaxSteps
        /\ n = "3d" => in.dt = 1 /\ in.t_max = 1
        /\ n \in {"sample", "filter", "meshing", "dockerfile", "injection"}
              => in.dt = 1 /\ in.t_max = 1 /\ in.steps = 1
        /\ nb' = n
        /\ pc' = 1
        /\ IF n = "dockerfile"
           THEN \E head \in [{PorepyUrl, MastersprojectUrl} -> RemoteBranches] :
                   env' = [inputs |-> in, remote_HEAD |-> head]
           ELSE env' = [inputs |-> in]
    /\ UNCHANGED <<gbd, asm, log, unitVars>>

\* gb = create_domain_2(domain2) / create_domain3d(domain) / cart_grid(...)
RunCreateDomain ==
    /\ At("create_domain")
    /\ Done("gb", Returned(<<>>), <<>>, gbd, asm,
            Update(env, [gb |-> CASE nb = "3d" -> Bucket3
                                  [] nb = "filter" -> Bucket1
                                  [] OTHER -> Bucket2]), pc + 1)

\* gb = assign_data(gb, ...) and the parameter loops of the sample setup
RunAssignData ==
    /\ At("assign_data")
    /\ LET r == NameError({"gb"})
           g_data ==
             CASE nb = "2d" -> assign_data_2d(env["gb"], Domain2, flow_keyword,
                                   transport_keyword, env["inputs"].dt, env["inputs"].t_max)
               [] nb = "3d" -> assign_data_3d(env["gb"], Domain3, flow_keyword,
                                   transport_keyword)
               [] nb = "filter" -> assign_data_filter(env["gb"], flow_keyword)
               [] OTHER -> sample_parameters(env["gb"], "flow")
       IN  Done("gb", r, <<>>, g_data, asm, env, pc + 1)

\* for g, d in gb: pp.set_state(d, {transport_variable: np.zeros(g.num_cells)})
RunSetState ==
    /\ At("set_state")
    /\ LET g_data == [gbd EXCEPT !.nodes =
                         [i \in 1..Len(gbd.nodes) |->
                             [gbd.nodes[i] EXCEPT !.pp_STATE =
                                 Update(@, [v \in {Stmt.variable} |-> [step |-> 0]])]]]
       IN  Done("gb", NameError({"gb"}), <<>>, g_data, asm, env, pc + 1)

\* A cell that creates discretization objects or defines a class
RunDefine ==
    /\ At("define")
    /\ Done("globals", NameError(Stmt.needs), DOMAIN Stmt.names, gbd, asm,
            Update(env, Stmt.names), pc + 1)

NamesOf(D) == UNION {{D[v][k] : k \in DOMAIN D[v]} : v \in DOMAIN D}

\* for g, d in gb: d[pp.PRIMARY_VARIABLES] = ...; d[pp.DISCRETIZATION] = ...
RunRegisterNodes ==
    /\ At("register_nodes")
    /\ LET D == Stmt.DISCRETIZATION
           resolved == [v \in DOMAIN D |-> [k \in DOMAIN D[v] |-> env[D[v][k]]]]
           g_data == [gbd EXCEPT !.nodes =
                         [i \in 1..Len(gbd.nodes) |->
                             Update(gbd.nodes[i],
                                    [PRIMARY_VARIABLES |-> Stmt.PRIMARY_VARIABLES,
                                     DISCRETIZATION |-> resolved])]]
       IN  Done("gb", NameError(NamesOf(D) \cup {"gb"}), <<>>, g_data, asm, env, pc + 1)

\* for e, d in gb.edges(): d[pp.PRIMARY_VARIABLES] = ...;
\* d[pp.COUPLING_DISCRETIZATION] = ...  (in the step-by-step notebooks this
\* loop is nested in the loop over the nodes)
RunRegisterEdges ==
    /\ At("register_edges")
    /\ LET C == Stmt.COUPLING_DISCRETIZATION
           skipped == Stmt.nested /\ Len(gbd.nodes) = 0
           resolved == [k \in DOMAIN C |-> [C[k] EXCEPT !.discretization = env[@]]]
           g_data == [gbd EXCEPT !.edges =
                         [i \in 1..Len(gbd.edges) |->
                             Update(gbd.edges[i],
                                    [PRIMARY_VARIABLES |-> Stmt.PRIMARY_VARIABLES,
                                     COUPLING_DISCRETIZATION |-> resolved])]]
           r == IF skipped THEN Returned(<<>>)
                ELSE NameError({C[k].discretization : k \in DOMAIN C} \cup {"gb"})
       IN  Done("gb", r, <<>>, IF skipped THEN gbd ELSE g_data, asm, env, pc + 1)

\* assembler = pp.Assembler(gb, active_variables=[...])
RunAssembler ==
    /\ At("Assembler")
    /\ LET a == IF Stmt.all THEN AssemblerOfAll(env["gb"])
                ELSE Assembler(env["gb"], Stmt.active_variables)
       IN  Done(Stmt.into, NameError({"gb"}), <<>>, gbd,
                Update(asm, [n \in {Stmt.into} |-> a]), env, pc + 1)

RunDiscretize ==
    /\ At("discretize")
    /\ LET r == IF ~HasKey(asm, Stmt.on) THEN Raised("NameError")
                ELSE IF Stmt.term_filter.all THEN Assembler_discretize(asm[Stmt.on], gbd)
                ELSE Assembler_discretize_term_filter(asm[Stmt.on], gbd, Stmt.term_filter)
       IN  Done(Stmt.on, r, Stmt.term_filter, r.val, asm, env, pc + 1)

\* A, b = assembler.assemble_matrix_rhs()
RunAssemble ==
    /\ At("assemble_matrix_rhs")
    /\ LET r == IF ~HasKey(asm, Stmt.on) THEN Raised("NameError")
                ELSE Assembler_assemble_matrix_rhs(Stmt.on, asm[Stmt.on], gbd)
       IN  Done(Stmt.on, r, r.val, gbd, asm,
                Update(env, [n \in {Stmt.into} |-> r.val]), pc + 1)

\* x = sps.linalg.spsolve(A, b)
RunSpsolve ==
    /\ At("spsolve")
    /\ LET r == NameError({Stmt.system})
           x == spsolve(env[Stmt.system])
       IN  Done(IF r.exc = "none" THEN env[Stmt.system].assembler ELSE Stmt.system,
                r, x, gbd, asm, Update(env, [n \in {Stmt.into} |-> x]), pc + 1)

\* assembler.distribute_variable(x)
RunDistribute ==
    /\ At("distribute_variable")
    /\ LET r == IF ~(HasKey(asm, Stmt.on) /\ HasKey(env, Stmt.x)) THEN Raised("NameError")
                ELSE Assembler_distribute_variable(asm[Stmt.on], gbd, env[Stmt.x])
       IN  Done(Stmt.on, r, env[Stmt.x], r.val, asm, env, pc + 1)

RunComputeDarcyFlux ==
    /\ At("compute_darcy_flux")
    /\ LET r == IF ~HasKey(env, "gb") THEN Raised("NameError")
                ELSE compute_darcy_flux(gbd, Stmt.lam_name, Stmt.keyword_store)
       IN  Done("gb", r, <<>>, r.val, asm, env, pc + 1)

\* export_transport = pp.Exporter(gb, name='tracer', folder=tracer_folder)
RunExporter ==
    /\ At("Exporter")
    /\ Done(Stmt.into, NameError({"gb"}), <<>>, gbd, asm,
            Update(env, [n \in {Stmt.into} |-> Exporter(env["gb"], Stmt.name, "folder")]),
            pc + 1)

RunWriteVtk ==
    /\ At("write_vtk")
    /\ LET t == Eval(Stmt.time_step, env, gbd)
           r == IF ~HasKey(env, Stmt.on) THEN Raised("NameError")
                ELSE IF t.exc # "none" THEN t
                ELSE Exporter_write_vtk(env[Stmt.on], gbd, Stmt.fields, t.val)
       IN  Done(Stmt.on, r, r.val.vtk[Len(r.val.vtk)], gbd, asm,
                Update(env, [n \in {Stmt.on} |-> r.val]), pc + 1)

RunWritePvd ==
    /\ At("write_pvd")
    /\ LET r == NameError({Stmt.on, Stmt.time_steps})
       IN  Done(Stmt.on, r, env[Stmt.time_steps], gbd, asm,
                Update(env, [n \in {Stmt.on} |->
                                Exporter_write_pvd(env[Stmt.on], env[Stmt.time_steps])]),
                pc + 1)

\* name = expression
RunAssign ==
    /\ At("assign")
    /\ LET r == Eval(Stmt.e, env, gbd)
       IN  Done(Stmt.into, r, <<>>, gbd, asm,
                Update(env, [n \in {Stmt.into} |-> r.val]), pc + 1)

\* for var in range(count): the next index, or the end of the loop
RunFor ==
    /\ At("for")
    /\ LET r == NameError({Stmt.count})
           next == Get(env, "range_iterator", 0)
       IN  IF r.exc = "none" /\ next >= env[Stmt.count]
           THEN Done(Stmt.var, r, <<>>, gbd, asm, env, Stmt.exit)
           ELSE Done(Stmt.var, r, <<>>, gbd, asm,
                     Update(env, [n \in {Stmt.var, "range_iterator"} |->
                                     IF n = Stmt.var THEN next ELSE next + 1]),
                     pc + 1)

RunWhile ==
    /\ At("while")
    /\ LET r == NameError({Stmt.cond.a, Stmt.cond.b})
       IN  Done("while", r, <<>>, gbd, asm, env,
                IF r.exc = "none" /\ ~Holds(Stmt.cond, env) THEN Stmt.exit ELSE pc + 1)

RunIf ==
    /\ At("if")
    /\ LET r == NameError({Stmt.cond.a, Stmt.cond.b})
       IN  Done("if", r, <<>>, gbd, asm, env,
                IF r.exc = "none" /\ ~Holds(Stmt.cond, env) THEN Stmt.else ELSE pc + 1)

\* The end of a loop body
RunJump ==
    /\ At("jump")
    /\ Done("jump", Returned(<<>>), <<>>, gbd, asm, env, Stmt.to)

\* pp.plot_grid(gb, "pressure", ...)
RunPlotGrid ==
    /\ At("plot_grid")
    /\ LET r == IF \E i \in 1..Len(gbd.nodes) : ~HasKey(gbd.nodes[i].pp_STATE, Stmt.variable)
                THEN Raised("KeyError") ELSE Returned(<<>>)
       IN  Done("gb", r,
                [data |-> [f \in {Stmt.variable} |->
                              [i \in 1..Len(gbd.nodes) |-> gbd.nodes[i].pp_STATE[f]]]],
                gbd, asm, env, pc + 1)

\* network.to_vtk(file_name), the only statement of its cell.  Looking up
\* a method the class does not have raises AttributeError before anything
\* is called; the traceback becomes the output of the cell, the kernel keeps
\* its state and the next cell is run (execution counts 5 and 6).
RunToVtk ==
    /\ At("to_vtk")
    /\ LET r == IF ~HasKey(env, Stmt.on) THEN Raised("NameError")
                ELSE IF "to_vtk" \in env[Stmt.on].methods THEN Returned(<<>>)
                ELSE Raised("AttributeError")
       IN  log' = Append(log, Event("to_vtk", Stmt.on, r.exc, <<>>))
    /\ pc' = pc + 1
    /\ UNCHANGED <<nb, gbd, asm, env, unitVars>>

(***************************************************************************)
(* The instructions of the Dockerfile.  The image under construction is    *)
(* env["image"]: base, packages and channels by tool, WORKDIR, files and   *)
(* directories, cloned repositories by directory, and the paths that       *)
(* `conda develop` has registered.  An instruction that fails ends the     *)
(* build.                                                                  *)
(***************************************************************************)
RunFrom ==
    /\ At("FROM")
    /\ Done("image", Returned(<<>>), Stmt.image, gbd, asm,
            Update(env, [image |-> [base |-> Stmt.image, installed |-> {},
                                    workdir |-> <<>>, files |-> {}, repos |-> EmptyDict,
                                    develop |-> {}]]),
            pc + 1)

NoImage == IF HasKey(env, "image") THEN Returned(<<>>) ELSE Raised("NoBaseImage")
Abs(path) == env["image"].workdir \o path
WithImage(key, value) == Update(env, [image |-> Update(env["image"], [k \in {key} |-> value])])

\* RUN conda config / conda install / pip install / apt-get install
RunInstall ==
    /\ At("install")
    /\ Done("image", NoImage, Stmt.names, gbd, asm,
            WithImage("installed", env["image"].installed
                                     \cup {<<Stmt.tool, n>> : n \in Stmt.names}),
            pc + 1)

RunWorkdir ==
    /\ At("WORKDIR")
    /\ Done("image", NoImage, Stmt.path, gbd, asm, WithImage("workdir", Stmt.path), pc + 1)

\* RUN wget <url> ; RUN mkdir <dir> ; RUN mv <from> <to>
RunFiles ==
    /\ Running
    /\ Stmt.op \in {"wget", "mkdir", "mv"}
    /\ LET files == env["image"].files
           r == IF Stmt.op = "mv" /\ Abs(Stmt.from) \notin files
                THEN Raised("NoSuchFile") ELSE NoImage
           after == CASE Stmt.op = "wget" -> files \cup {Abs(Stmt.file)}
                      [] Stmt.op = "mkdir" -> files \cup {Abs(Stmt.dir)}
                      [] OTHER -> (files \ {Abs(Stmt.from)}) \cup {Abs(Stmt.to)}
       IN  Done("image", r, <<>>, gbd, asm, WithImage("files", after), pc + 1)

\* git clone [--single-branch] [--branch b] url: the clone checks out b,
\* or the remote's default branch when no branch is named, and with
\* --single-branch it holds that branch only
git_clone_DefaultBranch(remote_HEAD, url, single_branch, branch) ==
    [url |-> url, head |-> remote_HEAD[url],
     branches |-> IF single_branch THEN {remote_HEAD[url]} ELSE RemoteBranches]
git_clone(remote_HEAD, url, single_branch, branch) ==
    LET head == IF branch = "" THEN remote_HEAD[url] ELSE branch
    IN  [url |-> url, head |-> head,
         branches |-> IF single_branch THEN {head} ELSE RemoteBranches]

RunGitClone ==
    /\ At("git_clone")
    /\ LET r == IF Stmt.branch \notin RemoteBranches \cup {""} THEN Raised("NoSuchBranch")
                ELSE NoImage
           repo == git_clone(env["remote_HEAD"], Stmt.url, Stmt.single_branch, Stmt.branch)
       IN  Done("image", r, repo, gbd, asm,
                Update(env, [image |-> Update(env["image"],
                    [repos |-> Update(env["image"].repos,
                                      [d \in {Abs(Stmt.dir)} |-> repo]),
                     files |-> env["image"].files \cup {Abs(Stmt.dir)}])]),
                pc + 1)

\* RUN conda develop <path>: the path is added to the environment's conda.pth
RunCondaDevelop ==
    /\ At("conda_develop")
    /\ LET r == IF <<"conda install", "conda-build">> \notin env["image"].installed
                THEN Raised("CommandNotFound") ELSE NoImage
       IN  Done("image", r, Abs(Stmt.path), gbd, asm,
                WithImage("develop", env["image"].develop \cup {Abs(Stmt.path)}), pc + 1)

\* setup = run_abstract_model(model=..., run_model_method=..., params=params)
RunAbstractModel ==
    /\ At("run_abstract_model")
    /\ \E p \in RecordedWellPressures :
          Done(Stmt.into, Returned(<<>>), Stmt.params, gbd, asm,
               Update(env, [n \in {Stmt.into} |->
                               [params |-> Stmt.params, p_exp_well |-> p]]),
               pc + 1)

\* state['p_exp'][loc] / pp.MEGA with loc = np.where(state['well'])[0]
RunWellPressure ==
    /\ At("well_pressure")
    /\ Done(Stmt.of, NameError({Stmt.of}), env[Stmt.of].p_exp_well, gbd, asm, env, pc + 1)

NextRun ==
    \/ Start
    \/ RunCreateDomain
    \/ RunAssignData
    \/ RunSetState
    \/ RunDefine
    \/ RunRegisterNodes
    \/ RunRegisterEdges
    \/ RunAssembler
    \/ RunDiscretize
    \/ RunAssemble
    \/ RunSpsolve
    \/ RunDistribute
    \/ RunComputeDarcyFlux
    \/ RunExporter
    \/ RunWriteVtk
    \/ RunWritePvd
    \/ RunAssign
    \/ RunFor
    \/ RunWhile
    \/ RunIf
    \/ RunJump
    \/ RunPlotGrid
    \/ RunToVtk
    \/ RunFrom
    \/ RunInstall
    \/ RunWorkdir
    \/ RunFiles
    \/ RunGitClone
    \/ RunCondaDevelop
    \/ RunAbstractModel
    \/ RunWellPressure

SpecRun == Init /\ [][NextRun]_vars

(***************************************************************************)
(* Single calls of assign_data of the step-by-step notebooks, on buckets   *)
(* whose rock grid has its faces anywhere along the x axis of the domain.  *)
(***************************************************************************)
\* A rock grid of the notebook's dimension with an immersed fracture
StepByStepBucket(dim, flags, along, side) ==
    [nodes |-> <<[BoundaryGrid(0, flags, along, side) EXCEPT !.dim = dim],
                 [Fracture EXCEPT !.dim = dim - 1]>>,
     edges |-> <<MortarGrid(1, Len(flags), 1)>>]

CallStepByStepAssignData ==
    /\ op = "none"
    /\ \E n \in {"2d", "3d"}, flags \in [1..NumFaces -> BOOLEAN],
          along \in [1..NumFaces -> 0..MaxCoord], side \in [1..NumFaces -> BOOLEAN],
          dt \in 1..MaxDt :
        LET gb == StepByStepBucket(IF n = "2d" THEN 2 ELSE 3, flags, along, side)
            domain == IF n = "2d" THEN Domain2 ELSE Domain3
        IN  /\ n = "3d" => dt = 1
            /\ op' = "assign_data_stepbystep"
            /\ arg' = [nb |-> n, gb |-> gb, domain |-> domain,
                       keyword_flow_storage |-> flow_keyword,
                       keyword_transport_storage |-> transport_keyword]
            /\ ret' = Returned(
                  IF n = "2d"
                  THEN assign_data_2d(gb, domain, flow_keyword, transport_keyword, dt, 3 * dt)
                  ELSE assign_data_3d(gb, domain, flow_keyword, transport_keyword))
            /\ UNCHANGED runVars

\* Buckets of the fracture sample setup: the rock grid of the unit square,
\* alone, with a fracture, or with a fracture and a point; y runs from 0 to
\* phys_dims[1], which is MaxCoord in the units of the grid coordinates
CartGrid(dim, num_cells, flags, y) ==
    [dim |-> dim, num_cells |-> num_cells, num_faces |-> Len(flags),
     tags |-> [domain_boundary_faces |-> flags],
     face_centers |-> [a \in 0..2 |-> IF a = 1 THEN y
                                      ELSE [f \in 1..Len(flags) |-> 0]]]
SampleBuckets(flags, y, fracOnBoundary) ==
    LET rock == CartGrid(2, 2, flags, y)
        frac == CartGrid(1, 1, <<fracOnBoundary, FALSE>>, <<y[1], y[1]>>)
        point == CartGrid(0, 1, <<>>, <<>>)
    IN  {[nodes |-> <<rock>>, edges |-> <<>>],
         [nodes |-> <<rock, frac>>, edges |-> <<MortarGrid(1, Len(flags), 1)>>],
         [nodes |-> <<rock, frac, point>>,
          edges |-> <<MortarGrid(1, Len(flags), 1), MortarGrid(1, 2, 1)>>]}

CallSampleParameters ==
    /\ op = "none"
    /\ \E flags \in [1..NumFaces -> BOOLEAN], y \in [1..NumFaces -> 0..MaxCoord],
          fracOnBoundary \in BOOLEAN :
        \E gb \in SampleBuckets(flags, y, fracOnBoundary) :
            /\ op' = "sample_parameters"
            /\ arg' = [gb |-> gb, data_key |-> flow_keyword]
            /\ ret' = Returned(sample_parameters(gb, flow_keyword))
            /\ UNCHANGED runVars

Next ==
    \/ CallAssembleMatrixRhs
    \/ CallAssembleRhs
    \/ CallIntBoundFlux
    \/ CallIntBoundSource
    \/ CallDirichletBc
    \/ CallAssignData
    \/ CallStepByStepAssignData
    \/ CallSampleParameters

Spec == Init /\ [][Next]_vars

(***************************************************************************)
(* Properties of the calls, checked under Spec.                            *)
(***************************************************************************)
Called(name) == op = name
Entrywise(A, B, s) ==
    /\ SameShape(A, B)
    /\ \A i \in 1..A.nr : \A j \in 1..A.nc : A.a[i][j] = s * B.a[i][j]

\* C1: whenever 'time_step' is stored under the keyword of the object,
\* ImplicitTpfa.assemble_matrix_rhs of each of the three notebooks returns
\* (A * dt, b * dt), (A, b) being what the parent Tpfa assembles under that
\* keyword and dt that 'time_step'.
C1_MatrixAndRhsScaled ==
    (Called("ImplicitTpfa.assemble_matrix_rhs")
        /\ HasKey(arg.data.PARAMETERS[arg.self.keyword], "time_step"))
    => LET dt == arg.data.PARAMETERS[arg.self.keyword]["time_step"]
           A == arg.data.Tpfa[arg.self.keyword][1]
           b == arg.data.Tpfa[arg.self.keyword][2]
       IN  /\ ret.exc = "none"
           /\ Entrywise(ret.val[1], A, dt)
           /\ Len(ret.val[2]) = Len(b)
           /\ \A i \in 1..Len(b) : ret.val[2][i] = dt * b[i]

C1_Witness ==
    /\ Called("ImplicitTpfa.assemble_matrix_rhs")
    /\ arg.nb = "3d"
    /\ arg.self.keyword = transport_keyword
    /\ arg.data.PARAMETERS[transport_keyword] = [time_step |-> 3]
    /\ arg.data.PARAMETERS[flow_keyword] = [time_step |-> 1]
    /\ ret.exc = "none"
    /\ ret.val[2] = <<3, -6>>

\* C2: ImplicitScalarSource.assemble_rhs returns only if there is one source
\* value per degree of freedom of the grid, and what it returns is
\* bound_source * sources * dt; with another number of source values the
\* assertion fails and nothing is returned.
C2_SourceRhsScaled ==
    Called("ImplicitScalarSource.assemble_rhs")
    => LET kw == arg.self.keyword
           P == arg.data.PARAMETERS[kw]
           sources == P["source"]
           n == arg.g.num_cells
       IN  /\ ret.exc = "none" =>
                LET M == arg.data.DISCRETIZATION_MATRICES[kw]["bound_source"]
                    unscaled(i) == LET t(k) == M.a[i][k] * sources[k] IN SumTo(t, M.nc)
                IN  /\ Len(sources) = n
                    /\ Len(ret.val) = M.nr
                    /\ \A i \in 1..M.nr : ret.val[i] = unscaled(i) * P["time_step"]
           /\ Len(sources) # n => ret.exc # "none"
           /\ (Len(sources) # n /\ HasKey(P, "time_step")
                 /\ HasKey(arg.data.DISCRETIZATION_MATRICES, kw))
              => ret.exc = "AssertionError"

C2_Witness ==
    /\ Called("ImplicitScalarSource.assemble_rhs")
    /\ arg.self.keyword = transport_keyword
    /\ arg.g.num_cells = 2
    /\ arg.data.PARAMETERS[transport_keyword] = [time_step |-> 3, source |-> <<1, 2>>]
    /\ HasKey(arg.data.PARAMETERS[flow_keyword], "time_step")
    /\ arg.data.PARAMETERS[flow_keyword]["time_step"] = 2
    /\ ret.exc = "none"
    /\ arg.data.DISCRETIZATION_MATRICES[transport_keyword]["bound_source"] = Sample(2, 2)
    /\ ret.val # <<0, 0>>

\* C10: when no 'bound_source' matrix is stored under the keyword,
\* ImplicitScalarSource.assemble_rhs discretizes and returns the right-hand
\* side.
C10_DiscretizesWhenMissing ==
    (Called("ImplicitScalarSource.assemble_rhs")
        /\ HasKey(arg.data.PARAMETERS[arg.self.keyword], "time_step")
        /\ HasKey(arg.data.DISCRETIZATION_MATRICES, arg.self.keyword)
        /\ ~HasKey(arg.data.DISCRETIZATION_MATRICES[arg.self.keyword], "bound_source")
        /\ Len(arg.data.PARAMETERS[arg.self.keyword]["source"]) = arg.g.num_cells)
    => ret.exc = "none"

\* C3: every interface contribution of ImplicitTpfa carries exactly one
\* factor of the time step.  assemble_int_bound_flux adds
\* dt * div * bound_flux * proj to cc[self_ind, 2] and
\* assemble_int_bound_source subtracts dt * proj from it; no other block of
\* cc changes; with time_step = 1 the update is the unscaled one and with
\* time_step multiplied by k the increment is multiplied by k.
OtherBlocksKept(old, new, self_ind) ==
    \A i \in 0..2 : \A j \in 0..2 : (i # self_ind \/ j # 2) => new[i][j] = old[i][j]

Increment(old, new, self_ind) == MatSub(new[self_ind][2], old[self_ind][2])

WithParameter(data, kw, key, value) ==
    [data EXCEPT !.PARAMETERS[kw] = Update(@, [k \in {key} |-> value])]

C3_FluxIncrement ==
    (Called("ImplicitTpfa.assemble_int_bound_flux") /\ ret.exc = "none")
    => LET kw == arg.self.keyword
           g == arg.g
           dt == arg.data.PARAMETERS[kw]["time_step"]
           stored == arg.data.DISCRETIZATION_MATRICES[kw]["bound_flux"]
           bound_flux == IF g.dim > 0 /\ stored.nr # g.num_faces
                         THEN MatMul(map_hf_2_f(g), stored) ELSE stored
           mg == arg.data_edge["mortar_grid"]
           proj == IF arg.grid_swap THEN mg.mortar_to_slave_int
                   ELSE mg.mortar_to_master_int
           unscaled == MatMul(MatMul(Transpose(g.cell_faces), bound_flux), proj)
           inc == Increment(arg.cc, ret.val, arg.self_ind)
           again(k) == ImplicitTpfa_assemble_int_bound_flux(
                           arg.self, g, WithParameter(arg.data, kw, "time_step", k * dt),
                           arg.data_edge, arg.grid_swap, arg.cc, arg.self_ind)
       IN  /\ Entrywise(inc, unscaled, dt)
           /\ OtherBlocksKept(arg.cc, ret.val, arg.self_ind)
           /\ \A k \in 1..MaxDt :
                /\ again(k).exc = "none"
                /\ Entrywise(Increment(arg.cc, again(k).val, arg.self_ind), inc, k)

C3_SourceIncrement ==
    (Called("ImplicitTpfa.assemble_int_bound_source") /\ ret.exc = "none")
    => LET kw == arg.self.keyword
           dt == arg.data.PARAMETERS[kw]["time_step"]
           mg == arg.data_edge["mortar_grid"]
           proj == IF arg.grid_swap THEN mg.mortar_to_master_int
                   ELSE mg.mortar_to_slave_int
           inc == Increment(arg.cc, ret.val, arg.self_ind)
           again(k) == ImplicitTpfa_assemble_int_bound_source(
                           arg.self, arg.g, WithParameter(arg.data, kw, "time_step", k * dt),
                           arg.data_edge, arg.grid_swap, arg.cc, arg.self_ind)
       IN  /\ Entrywise(inc, proj, -dt)
           /\ OtherBlocksKept(arg.cc, ret.val, arg.self_ind)
           /\ \A k \in 1..MaxDt :
                /\ again(k).exc = "none"
                /\ Entrywise(Increment(arg.cc, again(k).val, arg.self_ind), inc, k)

C3_OneFactorOfTimeStep == C3_FluxIncrement /\ C3_SourceIncrement

C3_Witness ==
    /\ Called("ImplicitTpfa.assemble_int_bound_flux")
    /\ ret.exc = "none"
    /\ arg.self.keyword = transport_keyword
    /\ arg.data.PARAMETERS[transport_keyword]["time_step"] = 2
    /\ arg.data.PARAMETERS[flow_keyword] = [time_step |-> 3]
    /\ arg.data_edge["mortar_grid"].num_cells = 2
    /\ arg.data.DISCRETIZATION_MATRICES[transport_keyword]["bound_flux"].nr
           = arg.g.num_faces * 2
    /\ LET inc == Increment(arg.cc, ret.val, arg.self_ind)
       IN  /\ \E i \in 1..inc.nr : \E j \in 1..inc.nc : inc.a[i][j] # 0
           /\ arg.cc[arg.self_ind][2] # Zeros(inc.nr, inc.nc)

\* C9: dirichlet_bc with one of the six flow directions, on a grid inside a
\* domain that has the bounds of the flow axis, labels a domain-boundary
\* face 'dir' if and only if its centre is within tol of the domain minimum
\* or maximum along the flow axis (x for E/W, y for N/S, z for U/D) and
\* 'neu' otherwise; the value is non-zero only on inflow faces, which lie
\* at the minimum for E, N, U and at the maximum for W, S, D.
Near(c, bound) == c - bound < tol /\ bound - c < tol

C9_DirichletInflowOutflow ==
    (Called("dirichlet_bc") /\ arg.flowdir \in FlowDirs)
    => LET fd == arg.flowdir
           axis == IF fd \in {"E", "W"} THEN 0 ELSE IF fd \in {"N", "S"} THEN 1 ELSE 2
           kmin == IF axis = 0 THEN "xmin" ELSE IF axis = 1 THEN "ymin" ELSE "zmin"
           kmax == IF axis = 0 THEN "xmax" ELSE IF axis = 1 THEN "ymax" ELSE "zmax"
           g == arg.g
           boundary(f) == g.tags["domain_boundary_faces"][f]
           centre(f) == g.face_centers[axis][f]
       IN  IF ~(HasKey(arg.domain, kmin) /\ HasKey(arg.domain, kmax))
           THEN ret.exc # "none"
           ELSE
             LET bc == ret.val[1]
                 bc_val == ret.val[2]
                 inflow == IF fd \in {"E", "N", "U"} THEN arg.domain[kmin]
                           ELSE arg.domain[kmax]
             IN  /\ ret.exc = "none"
                 /\ Len(bc.labels) = Len(bc.faces)
                 /\ \A f \in 1..g.num_faces :
                      boundary(f) <=> \E k \in 1..Len(bc.faces) : bc.faces[k] = f
                 /\ \A k \in 1..Len(bc.faces) :
                      /\ bc.labels[k] \in {"dir", "neu"}
                      /\ bc.labels[k] = "dir" <=>
                            (Near(centre(bc.faces[k]), arg.domain[kmin])
                               \/ Near(centre(bc.faces[k]), arg.domain[kmax]))
                      /\ bc.labels[k] = "neu" => bc_val[bc.faces[k]] = 0
                 /\ \A f \in 1..g.num_faces :
                      bc_val[f] # 0 => boundary(f) /\ Near(centre(f), inflow)

C9_Witness ==
    /\ Called("dirichlet_bc")
    /\ arg.flowdir = "S"
    /\ ret.exc = "none"
    /\ arg.g.tags["domain_boundary_faces"] = <<TRUE, TRUE>>
    /\ arg.g.face_centers[1] = <<Hi(1) - 1, Lo(1)>>
    /\ ret.val[1].labels = <<"dir", "dir">>
    /\ ret.val[2] = <<1, 0>>

\* C8: assign_data reads every key its docstring lists from `data` under
\* the documented name: the time step from data['dt'] and the advection
\* weight from data['advection_weight'], and both end up in the transport
\* parameters of every grid.
C8_DocumentedKeysRead ==
    (Called("assign_data") /\ ret.exc = "none" /\ arg.keyword = transport_keyword)
    => \A i \in 1..Len(ret.val.nodes) :
          LET P == ret.val.nodes[i].PARAMETERS[transport_keyword]
          IN  /\ HasKey(arg.data, "dt") => P["time_step"] = arg.data["dt"]
              /\ HasKey(arg.data, "advection_weight")
                    => /\ HasKey(P, "advection_weight")
                       /\ P["advection_weight"] = arg.data["advection_weight"]

(***************************************************************************)
(* Properties of the notebook runs, checked under SpecRun.                 *)
(***************************************************************************)
Ok(i, o, on) == log[i].op = o /\ log[i].on = on /\ log[i].exc = "none"
Last(i, o, on) == {j \in 1..(i - 1) : Ok(j, o, on) /\ \A k \in (j + 1)..(i - 1) : ~Ok(k, o, on)}

TracerTerms(d) == DOMAIN d.DISCRETIZATION[transport_variable] \ {mass_operator_key}
TransportCouplings(d) ==
    {k \in DOMAIN d.COUPLING_DISCRETIZATION :
        d.COUPLING_DISCRETIZATION[k].variable \in
            {edge_variable_transport_diffusion, edge_variable_transport_advection}}

C5_FlowBeforeTransport ==
    /\ \A i \in 1..Len(log) :
          (log[i].on = "assembler_transport"
             /\ log[i].op \in {"discretize", "assemble_matrix_rhs", "spsolve",
                               "distribute_variable"})
          => \E j1, j2, j3 \in 1..(i - 1) :
                /\ j1 < j2 /\ j2 < j3
                /\ Ok(j1, "spsolve", "assembler_flow")
                /\ Ok(j2, "distribute_variable", "assembler_flow")
                /\ log[j2].val = log[j1].val
                /\ Ok(j3, "compute_darcy_flux", "gb")
    /\ \A n \in 1..Len(gbd.nodes) :
          \A k \in DOMAIN Get(gbd.nodes[n].DISCRETIZATION_MATRICES, transport_keyword,
                              EmptyDict) :
              /\ HasKey(gbd.nodes[n].pp_STATE, flow_variable)
              /\ gbd.nodes[n].DISCRETIZATION_MATRICES[transport_keyword][k].darcy_flux
                    = [pressure |-> gbd.nodes[n].pp_STATE[flow_variable]]

C5_Witness ==
    /\ nb = "3d"
    /\ \E i \in 1..Len(log) : Ok(i, "spsolve", "assembler_transport")
    /\ gbd.nodes[1].DISCRETIZATION_MATRICES[transport_keyword][
          "IE_discretizations.ImplicitUpwind"]
          = [cls |-> "IE_discretizations.ImplicitUpwind",
             darcy_flux |-> [pressure |-> [step |-> 1]]]

\* C6: for each assembler the operations come in the order assign
\* parameters, discretize, assemble_matrix_rhs, spsolve, distribute_variable,
\* export: a discretize follows the assignment of parameters and
\* discretizations on grids and edges; an assemble follows a discretize of
\* the same assembler; a solve solves the system of the latest assemble; a
\* distribute distributes the latest solution; and an export made after a
\* solve writes that latest solution, which was distributed before.
Owners(f) == {a \in DOMAIN asm : IsActive(asm[a], f)}

C6_PipelineOrder ==
    \A i \in 1..Len(log) :
      /\ log[i].op = "discretize"
         => \E j1, j2 \in 1..(i - 1) :
               /\ Ok(j1, "assign_data", "gb") /\ Ok(j2, "register_nodes", "gb")
               /\ j1 < j2
               /\ Len(gbd.edges) > 0
                  => \E j3 \in (j2 + 1)..(i - 1) : Ok(j3, "register_edges", "gb")
      /\ log[i].op = "assemble_matrix_rhs"
         => \E j \in 1..(i - 1) : Ok(j, "discretize", log[i].on)
      /\ log[i].op = "spsolve"
         => /\ Last(i, "assemble_matrix_rhs", log[i].on) # {}
            /\ \A j \in Last(i, "assemble_matrix_rhs", log[i].on) :
                  log[i].exc = "none" /\ log[i].val = spsolve(log[j].val)
      /\ log[i].op = "distribute_variable"
         => /\ Last(i, "spsolve", log[i].on) # {}
            /\ \A j \in Last(i, "spsolve", log[i].on) :
                  log[i].exc = "none" /\ log[i].val = log[j].val
      /\ log[i].op \in {"write_vtk", "plot_grid"}
         => /\ log[i].exc = "none"
            /\ \A f \in DOMAIN log[i].val.data : \A a \in Owners(f) :
                  \A j \in Last(i, "spsolve", a) :
                     /\ \E k \in (j + 1)..(i - 1) :
                           Ok(k, "distribute_variable", a) /\ log[k].val = log[j].val
                     /\ \A n \in 1..Len(log[i].val.data[f]) :
                           log[i].val.data[f][n] = log[j].val[f]

C6_Witness ==
    /\ nb = "2d"
    /\ env["inputs"].dt = 2
    /\ \E i \in 1..Len(log) :
          /\ Ok(i, "write_vtk", "export_transport")
          /\ log[i].val.time_step = 1
          /\ log[i].val.data[transport_variable] = <<[step |-> 2], [step |-> 2]>>

\* C7: an operation on assembler_flow changes no state of a grid other
\* than 'pressure' and no state of an edge other than 'darcy_flux'; every
\* other operation of the run, the transport time steps among them, leaves
\* the pressure state of the grids and the darcy_flux state of the edges
\* as they are.
Without(st, v) == [k \in DOMAIN st \ {v} |-> st[k]]
Only(st, v) == [k \in DOMAIN st \cap {v} |-> st[k]]
OnFlow ==
    /\ Running
    /\ \/ Stmt.op \in {"discretize", "assemble_matrix_rhs", "distribute_variable"}
             /\ Stmt.on = "assembler_flow"
       \/ Stmt.op = "spsolve" /\ Stmt.system = "A_flow"

C7_FlowAndTransportFrames ==
    [][(nb \in {"2d", "3d"} /\ Len(gbd'.nodes) = Len(gbd.nodes)
          /\ Len(gbd'.edges) = Len(gbd.edges))
       => IF OnFlow
          THEN /\ \A i \in 1..Len(gbd.nodes) :
                     Without(gbd'.nodes[i].pp_STATE, flow_variable)
                        = Without(gbd.nodes[i].pp_STATE, flow_variable)
               /\ \A i \in 1..Len(gbd.edges) :
                     Without(gbd'.edges[i].pp_STATE, edge_variable_flow)
                        = Without(gbd.edges[i].pp_STATE, edge_variable_flow)
          ELSE /\ \A i \in 1..Len(gbd.nodes) :
                     Only(gbd'.nodes[i].pp_STATE, flow_variable)
                        = Only(gbd.nodes[i].pp_STATE, flow_variable)
               /\ \A i \in 1..Len(gbd.edges) :
                     Only(gbd'.edges[i].pp_STATE, edge_variable_flow)
                        = Only(gbd.edges[i].pp_STATE, edge_variable_flow)]_vars

C7_Witness ==
    /\ nb = "3d"
    /\ \E i, j \in 1..Len(log) :
          /\ i < j
          /\ Ok(i, "distribute_variable", "assembler_flow")
          /\ Ok(j, "distribute_variable", "assembler_transport")
    /\ gbd.nodes[1].pp_STATE[flow_variable] = [step |-> 1]
    /\ gbd.nodes[1].pp_STATE[transport_variable] = [step |-> 2]
    /\ DOMAIN gbd.edges[1].pp_STATE =
          {edge_variable_flow, edge_variable_transport_diffusion,
           edge_variable_transport_advection}
    /\ gbd.edges[1].pp_STATE[edge_variable_flow] = [step |-> 1]

\* C11: in assign_data of the two step-by-step notebooks the flow and the
\* transport problem of a grid get the same boundary condition and values;
\* a grid without domain-boundary faces gets the default condition and
\* all-zero values; otherwise the condition names exactly the
\* domain-boundary faces, such a face is Dirichlet iff its centre is within
\* tol of xmin or of xmax, a Neumann face has value 0, a face on the left
\* has value 1, a face on the right value 0, and so has every interior face.
C11_FlowLeftToRight ==
    Called("assign_data_stepbystep")
    => /\ ret.exc = "none"
       /\ \A i \in 1..Len(arg.gb.nodes) :
            LET g == arg.gb.nodes[i]
                pf == ret.val.nodes[i].PARAMETERS[arg.keyword_flow_storage]
                pt == ret.val.nodes[i].PARAMETERS[arg.keyword_transport_storage]
                boundary(f) == g.tags["domain_boundary_faces"][f]
                x(f) == g.face_centers[0][f]
                onLeft(f) == Near(x(f), arg.domain["xmin"])
                onRight(f) == Near(x(f), arg.domain["xmax"])
            IN  /\ pf.bc = pt.bc
                /\ pf.bc_values = pt.bc_values
                /\ Len(pf.bc_values) = g.num_faces
                /\ Len(pf.bc.labels) = Len(pf.bc.faces)
                /\ \A f \in 1..g.num_faces :
                      boundary(f) <=> \E k \in 1..Len(pf.bc.faces) : pf.bc.faces[k] = f
                /\ \A k \in 1..Len(pf.bc.faces) :
                      LET f == pf.bc.faces[k]
                      IN  /\ pf.bc.labels[k] \in {"dir", "neu"}
                          /\ pf.bc.labels[k] = "dir" <=> (onLeft(f) \/ onRight(f))
                /\ \A f \in 1..g.num_faces :
                      pf.bc_values[f] = IF boundary(f) /\ onLeft(f) THEN 1 ELSE 0

C11_Witness ==
    /\ Called("assign_data_stepbystep")
    /\ arg.nb = "3d"
    /\ arg.gb.nodes[1].tags["domain_boundary_faces"] = <<TRUE, TRUE>>
    /\ arg.gb.nodes[1].face_centers[0] = <<Hi(0) - 1, Lo(0) + 1>>
    /\ ret.val.nodes[1].PARAMETERS[transport_keyword].bc.labels = <<"dir", "dir">>
    /\ ret.val.nodes[1].PARAMETERS[transport_keyword].bc_values = <<0, 1>>
    /\ ret.val.nodes[2].PARAMETERS[flow_keyword].bc.faces = <<>>
    /\ ret.val.nodes[2].PARAMETERS[flow_keyword].bc_values = <<0, 0>>

\* C12: in the fracture sample setup the specific volume of a grid is the
\* aperture raised to the grid's codimension dim_max - dim (1 on the rock
\* grid, the aperture on a 1D fracture, its square on a 0D point), and the
\* permeability of every cell is that specific volume, multiplied by
\* fracture_perm if and only if the grid's dimension is below dim_max.
C12_SpecificVolumeAndPermeability ==
    Called("sample_parameters")
    => /\ ret.exc = "none"
       /\ \A i \in 1..Len(arg.gb.nodes) :
            LET g == arg.gb.nodes[i]
                codim == IF g.dim = 2 THEN 0 ELSE IF g.dim = 1 THEN 1 ELSE 2
                p == ret.val.nodes[i].PARAMETERS[arg.data_key]
                k == p.second_order_tensor.kxx
            IN  /\ codim = dim_max(arg.gb) - g.dim
                /\ p.source.aperture = codim
                /\ DOMAIN k = 1..g.num_cells
                /\ \A c \in 1..g.num_cells :
                      /\ k[c].aperture = codim
                      /\ k[c].fracture_perm = IF g.dim < dim_max(arg.gb) THEN 1 ELSE 0

C12_Witness ==
    /\ Called("sample_parameters")
    /\ Len(arg.gb.nodes) = 3
    /\ ret.val.nodes[1].PARAMETERS[flow_keyword].second_order_tensor.kxx
          = <<[aperture |-> 0, fracture_perm |-> 0], [aperture |-> 0, fracture_perm |-> 0]>>
    /\ ret.val.nodes[2].PARAMETERS[flow_keyword].second_order_tensor.kxx
          = <<[aperture |-> 1, fracture_perm |-> 1]>>
    /\ ret.val.nodes[3].PARAMETERS[flow_keyword].second_order_tensor.kxx
          = <<[aperture |-> 2, fracture_perm |-> 1]>>

\* C13: in the fracture sample setup the boundary condition of every grid
\* names exactly its domain-boundary faces and labels each of them 'dir';
\* the value of such a face is the y-coordinate of its centre, so that a
\* face on the top boundary has the value of phys_dims[1] (1) and one on
\* the bottom 0; every interior face has value 0.
C13_DirichletValueIsY ==
    Called("sample_parameters")
    => /\ ret.exc = "none"
       /\ \A i \in 1..Len(arg.gb.nodes) :
            LET g == arg.gb.nodes[i]
                p == ret.val.nodes[i].PARAMETERS[arg.data_key]
                boundary(f) == g.tags["domain_boundary_faces"][f]
                yc(f) == g.face_centers[1][f]
            IN  /\ Len(p.bc.labels) = Len(p.bc.faces)
                /\ \A f \in 1..g.num_faces :
                      boundary(f) <=> \E j \in 1..Len(p.bc.faces) : p.bc.faces[j] = f
                /\ \A j \in 1..Len(p.bc.faces) : p.bc.labels[j] = "dir"
                /\ Len(p.bc_values) = g.num_faces
                /\ \A f \in 1..g.num_faces :
                      /\ boundary(f) => p.bc_values[f] = yc(f)
                      /\ (boundary(f) /\ yc(f) = MaxCoord) => p.bc_values[f] = MaxCoord
                      /\ (boundary(f) /\ yc(f) = 0) => p.bc_values[f] = 0
                      /\ ~boundary(f) => p.bc_values[f] = 0

C13_Witness ==
    /\ Called("sample_parameters")
    /\ Len(arg.gb.nodes) = 2
    /\ arg.gb.nodes[1].tags["domain_boundary_faces"] = <<TRUE, FALSE>>
    /\ arg.gb.nodes[1].face_centers[1] = <<MaxCoord, 2>>
    /\ ret.val.nodes[1].PARAMETERS[flow_keyword].bc = [faces |-> <<1>>, labels |-> <<"dir">>]
    /\ ret.val.nodes[1].PARAMETERS[flow_keyword].bc_values = <<MaxCoord, 0>>
    /\ arg.gb.nodes[2].tags["domain_boundary_faces"][1]
    /\ ret.val.nodes[2].PARAMETERS[flow_keyword].bc.labels = <<"dir">>

\* C14: in the run of the notebook on term_filter no call raises, and when
\* assemble_matrix_rhs is about to run after discretize(term_filter=
\* [diffusion_1]) the matrices of both registered terms, diffusion_1 and
\* diffusion_2, are present in the grid's data under the keyword 'flow'
\* the two share, so that this assembly returns a system.
AfterFilteredDiscretize ==
    /\ At("assemble_matrix_rhs")
    /\ Len(log) > 0
    /\ log[Len(log)].op = "discretize"
    /\ log[Len(log)].val = TermFilter({flow_operator_key_1})

C14_FilteredDiscretizeAssembles ==
    nb = "filter"
    => /\ \A i \in 1..Len(log) : log[i].exc = "none"
       /\ pc # -1
       /\ AfterFilteredDiscretize
          => /\ Len(gbd.nodes) = 1
             /\ DOMAIN gbd.nodes[1].DISCRETIZATION[flow_variable]
                   = {flow_operator_key_1, flow_operator_key_2}
             /\ \A key \in {flow_operator_key_1, flow_operator_key_2} :
                   LET obj == gbd.nodes[1].DISCRETIZATION[flow_variable][key]
                   IN  /\ obj.keyword = flow_keyword
                       /\ HasKey(gbd.nodes[1].DISCRETIZATION_MATRICES, flow_keyword)
                       /\ HasKey(gbd.nodes[1].DISCRETIZATION_MATRICES[flow_keyword],
                                 MatrixName(obj))
             /\ Assembler_assemble_matrix_rhs(Stmt.on, asm[Stmt.on], gbd).exc = "none"

C14_Witness ==
    /\ nb = "filter"
    /\ pc = Len(Cells_filter) + 1
    /\ \E i \in 1..Len(log) :
          /\ log[i].op = "discretize" /\ log[i].val = TermFilter({flow_operator_key_1})
          /\ log[i + 1].op = "assemble_matrix_rhs" /\ log[i + 1].exc = "none"
          /\ log[i + 2].op = "spsolve" /\ log[i + 2].exc = "none"

\* C15: in the notebook on meshing, to_vtk on the 2D fracture network ends
\* in an AttributeError that is kept as the output of its cell; the step
\* changes neither the fracture network nor the grid bucket nor any other
\* name, and the cell after it creates the Exporter of the grid bucket,
\* whose write_vtk then succeeds.
ToVtkOn2d == nb = "meshing" /\ At("to_vtk") /\ Stmt.on = "network_2d"

C15_ToVtkFailsAndExportFollows ==
    /\ [][ToVtkOn2d
          => /\ log' = Append(log, Event("to_vtk", "network_2d", "AttributeError", <<>>))
             /\ env' = env /\ gbd' = gbd /\ asm' = asm
             /\ env'["network_2d"] = FractureNetwork2d
             /\ env'["gb"] = Bucket2
             /\ Cells(nb)[pc'].op = "Exporter"]_vars
    /\ [](nb = "meshing"
          => \A i \in 1..Len(log) :
                (log[i].op = "to_vtk" /\ log[i].on = "network_2d")
                => /\ log[i].exc = "AttributeError"
                   /\ Len(log) > i => Ok(i + 1, "Exporter", "save")
                   /\ Len(log) > i + 1
                      => Ok(i + 2, "write_vtk", "save") /\ env["gb"] = Bucket2)

C15_Witness ==
    /\ nb = "meshing"
    /\ \E i \in 1..Len(log) :
          /\ log[i] = Event("to_vtk", "network_2d", "AttributeError", <<>>)
          /\ Len(log) >= i + 2
          /\ Ok(i + 2, "write_vtk", "save")
    /\ Len(env["save"].vtk) = 1
    /\ env["network_2d"] = FractureNetwork2d

\* C16: in a build of the Dockerfile every repository in the image was
\* cloned by a git clone with --single-branch and --branch develop and
\* holds the branch develop only, whatever the default branch of its
\* remote; there are never more than two clones; and when the build is
\* complete the repositories are exactly porepy and mastersproject, each
\* with a path inside it registered by `conda develop`.
IsPrefix(a, b) == Len(a) <= Len(b) /\ SubSeq(b, 1, Len(a)) = a
CloneEvents == {i \in 1..Len(log) : log[i].op = "git_clone"}

C16_TwoRepositoriesAtDevelop ==
    (nb = "dockerfile" /\ HasKey(env, "image"))
    => LET image == env["image"]
       IN  /\ Cardinality(CloneEvents) <= 2
           /\ \A i \in CloneEvents :
                 /\ log[i].exc = "none"
                 /\ Dockerfile[i].op = "git_clone"
                 /\ Dockerfile[i].single_branch
                 /\ Dockerfile[i].branch = "develop"
                 /\ log[i].val.url = Dockerfile[i].url
           /\ \A d \in DOMAIN image.repos :
                 /\ image.repos[d].url \in {PorepyUrl, MastersprojectUrl}
                 /\ image.repos[d].head = "develop"
                 /\ image.repos[d].branches = {"develop"}
           /\ pc = Len(Dockerfile) + 1
              => /\ {image.repos[d].url : d \in DOMAIN image.repos}
                       = {PorepyUrl, MastersprojectUrl}
                 /\ Cardinality(DOMAIN image.repos) = 2
                 /\ \A d \in DOMAIN image.repos :
                       \E path \in image.develop : IsPrefix(d, path)

C16_Witness ==
    /\ nb = "dockerfile"
    /\ pc = Len(Dockerfile) + 1
    /\ env["remote_HEAD"] = [u \in {PorepyUrl, MastersprojectUrl} |-> "master"]
    /\ DOMAIN env["image"].repos = {<<"home", "porepy">>, <<"home", "mastersproject">>}
    /\ env["image"].repos[<<"home", "porepy">>].branches = {"develop"}
    /\ <<"home", "porepy", "src">> \in env["image"].develop
    /\ <<"home", "mastersproject", "src">> \in env["image"].develop

\* C17: with the injection of 20 l/min over the single 40-minute step into
\* shear zone S1_2, the pressure displayed for the injection cell lies in
\* the expected range of 5 to 9 MPa (5000 to 9000 kPa).
C17_WellPressureInExpectedRange ==
    nb = "injection"
    => \A i \in 1..Len(log) :
          log[i].op = "well_pressure"
          => log[i].exc = "none" /\ log[i].val \in 5000..9000

\* C18: in the 2D step-by-step notebook, once write_pvd has run, the time
\* history has one entry per index written by write_vtk, and its k-th entry
\* is the simulation time of the state that the file of index k holds (the
\* one written to that index last).
C18_PvdEntryPerVtkStep ==
    (nb = "2d" /\ \E i \in 1..Len(log) : Ok(i, "write_pvd", "export_transport"))
    => LET e == env["export_transport"]
           indices == {e.vtk[j].time_step : j \in 1..Len(e.vtk)}
           held(k) == CHOOSE j \in 1..Len(e.vtk) :
                         /\ e.vtk[j].time_step = k
                         /\ \A j2 \in (j + 1)..Len(e.vtk) : e.vtk[j2].time_step # k
       IN  /\ Len(e.pvd) = Cardinality(indices)
           /\ \A k \in 1..Len(e.pvd) :
                 /\ (k - 1) \in indices
                 /\ e.vtk[held(k - 1)].data[transport_variable][1].step * env["inputs"].dt
                       = e.pvd[k]

====
